---- MODULE Spec2Model ----
(***************************************************************************)
(* Model of the statement-extension (installment loan) product of the     *)
(* card simulator: ExtensionProduct (amortization and the single-extension *)
(* payment waterfall) and ExtensionFactory (the registry and its           *)
(* cross-extension allocation), src/extension.py.                          *)
(*                                                                         *)
(* Money.  The code computes in decimal.Decimal.  Here an amount is an     *)
(* integer number of units, Cent units to the cent, where Cent is chosen   *)
(* so that every quotient the code forms on the modelled inputs (by 100,   *)
(* by 12, by the term, by the number of future installments and its        *)
(* square) is a whole number of units: the arithmetic is exact, as the     *)
(* Decimal arithmetic is up to its 28th significant digit.  quantize is    *)
(* modelled as what it does: rounding to the cent, ties to even.           *)
(*                                                                         *)
(* Dates.  A datetime.date is the integer year*10000 + month*100 + day,    *)
(* which orders as dates do.                                               *)
(***************************************************************************)
EXTENDS Integers, Sequences, FiniteSets, TLC

\* ------------------------------------------------------------------ bounds
MaxTerm == 3    \* longest requested term, in months
MaxExt == 2     \* extensions the registry holds at most
MaxCalls == 2   \* payment calls made at most
MaxCycles == 3  \* statement cycles asked for at most
MaxTx == 3      \* transactions posted to the ledger at most

\* ------------------------------------------------------- program constants
MinTermMonths == 1
MaxTermMonths == 12
DefaultApr == 36

\* ------------------------------------------------------------- fixed point
RECURSIVE Gcd(_, _)
Gcd(a, b) == IF b = 0 THEN a ELSE Gcd(b, a % b)

RECURSIVE LcmUpTo(_)
LcmUpTo(n) == IF n <= 1 THEN 1
              ELSE LET l == LcmUpTo(n - 1) IN (l * n) \div Gcd(l, n)

\* Units to the cent: hundredths of a cent (a cent amount times apr/100),
\* divided by a count of installments and by its square.
Cent == 100 * LcmUpTo(MaxTerm) * LcmUpTo(MaxTerm)

Min(a, b) == IF a <= b THEN a ELSE b
Max(a, b) == IF a >= b THEN a ELSE b

\* Decimal.quantize(Decimal('0.01')) under the default context: round to the
\* cent, a tie going to the even cent.  \div and % round toward minus infinity.
Quantize(x) ==
    LET q == x \div Cent
        r == x % Cent
    IN  IF 2 * r < Cent THEN q * Cent
        ELSE IF 2 * r > Cent THEN (q + 1) * Cent
        ELSE IF (q % 2) = 0 THEN q * Cent
        ELSE (q + 1) * Cent

\* int(a / b) of Python: the quotient truncated toward zero (b # 0).
TruncDiv(a, b) ==
    LET n == IF a < 0 THEN 0 - a ELSE a
        d == IF b < 0 THEN 0 - b ELSE b
        q == n \div d
    IN  IF (a < 0) = (b < 0) THEN q ELSE 0 - q

RECURSIVE SumOver(_, _, _)
\* sum of f[i] over the indices i of S (a finite set of integers)
SumOver(S, f, acc) ==
    IF S = {} THEN acc
    ELSE LET i == CHOOSE j \in S : \A k \in S : j <= k
         IN  SumOver(S \ {i}, f, acc + f[i])

\* ------------------------------------------------------------------- dates
MkDate(y, m, d) == (y * 10000) + (m * 100) + d
YearOf(date) == date \div 10000
MonthOf(date) == (date \div 100) % 100
DayOf(date) == date % 100

IsLeap(year) == (year % 4) = 0 /\ ((year % 100) # 0 \/ (year % 400) = 0)

DaysInMonth(year, month) ==
    <<31, IF IsLeap(year) THEN 29 ELSE 28, 31, 30, 31, 30,
      31, 31, 30, 31, 30, 31>>[month]

\* ExtensionProduct._add_months
add_months(date, months) ==
    LET month0 == MonthOf(date) - 1 + months
        year == YearOf(date) + (month0 \div 12)
        month == (month0 % 12) + 1
        day == Min(DayOf(date), DaysInMonth(year, month))
    IN  MkDate(year, month, day)

\* ------------------------------------------------------ ExtensionProduct
\* Variant of remainder in which the last installment is one more rounded
\* monthly amount; the schedule sums of C10 must tell it from the code.
remainder_dropped(total, monthly, term_months) == monthly

\* principal_remainder / interest_remainder: what the last installment
\* carries, the total less the rounded monthly amount of every earlier month.
remainder(total, monthly, term_months) ==
    total - (monthly * (term_months - 1))

\* The schedule ExtensionProduct.__init__ builds; amount in units, apr in
\* percent.
ExtensionProduct(amount, start_date, term_months_in, apr) ==
    LET term_months == Min(Max(MinTermMonths, term_months_in), MaxTermMonths)
        \* original_amount * (apr / 100) * (term_months / 12)
        total_interest == ((amount \div 100) * apr * term_months) \div 12
        monthly_payment == (amount + total_interest) \div term_months
        monthly_principal == Quantize(amount \div term_months)
        monthly_interest == Quantize(total_interest \div term_months)
        principal_remainder == remainder(amount, monthly_principal, term_months)
        interest_remainder ==
            remainder(total_interest, monthly_interest, term_months)
        row(month) ==
            LET principal == IF month = term_months THEN principal_remainder
                             ELSE monthly_principal
                interest == IF month = term_months THEN interest_remainder
                            ELSE monthly_interest
            IN  [payment_number |-> month,
                 payment_date |-> add_months(start_date, month),
                 principal_amount |-> principal,
                 interest_amount |-> interest,
                 remaining_principal |-> principal,
                 remaining_interest |-> interest,
                 remaining_amount |-> principal + interest,
                 paid |-> FALSE]
    IN  [original_amount |-> amount,
         start_date |-> start_date,
         term_months |-> term_months,
         apr |-> apr,
         status |-> "ACTIVE",
         total_interest |-> total_interest,
         monthly_payment |-> monthly_payment,
         payment_schedule |-> [month \in 1..term_months |-> row(month)],
         payments |-> <<>>,
         current_balance |-> amount]

\* Boolean-mask selections of the DataFrame, as the index labels of the rows
\* selected, in index order.  The unpaid rows due before payment_date:
past_due_rows(schedule, payment_date) ==
    SelectSeq([i \in 1..Len(schedule) |-> i],
              LAMBDA i : schedule[i].payment_date < payment_date
                         /\ ~schedule[i].paid)

\* the rows due on or after payment_date, paid or not
upcoming_rows(schedule, payment_date) ==
    SelectSeq([i \in 1..Len(schedule) |-> i],
              LAMBDA i : schedule[i].payment_date >= payment_date)

\* Variant of future_installments that keeps the rows already paid; the
\* unchanged PAID extension of C35 must tell it from the code.
future_installments_with_paid(schedule, payment_date) ==
    SelectSeq([i \in 1..Len(schedule) |-> i],
              LAMBDA i : schedule[i].payment_date > payment_date)

\* the unpaid rows due after payment_date
future_installments(schedule, payment_date) ==
    SelectSeq([i \in 1..Len(schedule) |-> i],
              LAMBDA i : schedule[i].payment_date > payment_date
                         /\ ~schedule[i].paid)

\* Variant of SortByDate that leaves the entries in the order they were
\* collected; the allocation order of C2 must tell it from the code.
SortByDate_unsorted(entries) == entries

RECURSIVE SortByDate(_)
\* list.sort / sort_values by payment_date, ascending and stable: the first
\* of the entries with the least date comes first.
SortByDate(entries) ==
    IF entries = <<>> THEN <<>>
    ELSE LET k == CHOOSE i \in 1..Len(entries) :
                      /\ \A j \in 1..Len(entries) :
                             entries[i].payment_date <= entries[j].payment_date
                      /\ \A j \in 1..(i - 1) :
                             entries[j].payment_date # entries[i].payment_date
             rest == [j \in 1..(Len(entries) - 1) |->
                          IF j < k THEN entries[j] ELSE entries[j + 1]]
         IN  <<entries[k]>> \o SortByDate(rest)

\* Variant of get_past_due_installments that also takes the unpaid row due on
\* payment_date itself; the past-due amount of C13 must tell it from the code.
get_past_due_installments_through(ext, payment_date) ==
    LET schedule == ext.payment_schedule
    IN  SortByDate(SelectSeq(schedule,
                             LAMBDA row : row.payment_date <= payment_date
                                          /\ ~row.paid))

\* ExtensionProduct.get_past_due_installments: the unpaid rows due strictly
\* before payment_date, oldest first.
get_past_due_installments(ext, payment_date) ==
    LET schedule == ext.payment_schedule
        idx == past_due_rows(schedule, payment_date)
    IN  SortByDate([i \in 1..Len(idx) |-> schedule[idx[i]]])

RECURSIVE SumAmounts(_)
SumAmounts(rows) ==
    IF rows = <<>> THEN 0
    ELSE Head(rows).remaining_amount + SumAmounts(Tail(rows))

\* ExtensionProduct.get_past_due_amount
get_past_due_amount(ext, payment_date) ==
    SumAmounts(get_past_due_installments(ext, payment_date))

NoInstallment == [payment_number |-> 0]

\* Variant of get_next_installment that skips the rows marked paid; the
\* next-due amount of C14 must tell it from the code.
get_next_installment_unpaid(ext, payment_date) ==
    LET rows == SelectSeq(ext.payment_schedule,
                          LAMBDA row : row.payment_date >= payment_date
                                       /\ ~row.paid)
    IN  IF rows = <<>> THEN NoInstallment ELSE Head(SortByDate(rows))

\* ExtensionProduct.get_next_installment: the earliest row due on or after
\* payment_date, paid or not; NoInstallment stands for None.
get_next_installment(ext, payment_date) ==
    LET schedule == ext.payment_schedule
        idx == upcoming_rows(schedule, payment_date)
    IN  IF idx = <<>> THEN NoInstallment
        ELSE Head(SortByDate([i \in 1..Len(idx) |-> schedule[idx[i]]]))

\* ExtensionProduct.get_next_due_amount
get_next_due_amount(ext, payment_date) ==
    LET installment == get_next_installment(ext, payment_date)
    IN  IF installment = NoInstallment \/ installment.paid THEN 0
        ELSE installment.remaining_amount

\* One installment paid from remaining_payment, principal first and then
\* interest when money is left (make_payment, past-due and current phases).
pay_installment(installment, remaining_payment) ==
    LET principal_payment ==
            Min(remaining_payment, installment.remaining_principal)
        remaining_principal ==
            Quantize(installment.remaining_principal - principal_payment)
        left == remaining_payment - principal_payment
        interest_payment ==
            IF left > 0 THEN Min(left, installment.remaining_interest) ELSE 0
        remaining_interest ==
            IF left > 0
            THEN Quantize(installment.remaining_interest - interest_payment)
            ELSE installment.remaining_interest
    IN  [installment |->
             [installment EXCEPT
                 !.remaining_principal = remaining_principal,
                 !.remaining_interest = remaining_interest,
                 !.paid = installment.paid
                          \/ (remaining_principal <= 0 /\ remaining_interest <= 0),
                 !.remaining_amount =
                     Quantize(remaining_interest + remaining_principal)],
         remaining_payment |-> left - interest_payment,
         principal_paid |-> principal_payment,
         interest_paid |-> interest_payment]

RECURSIVE past_due_phase_newest_first(_, _)
\* Variant of past_due_phase that pays the rows of past_due from the last to
\* the first; the oldest-first order of C4 must tell it from the code.
past_due_phase_newest_first(acc, past_due) ==
    IF past_due = <<>> THEN acc
    ELSE LET idx == past_due[Len(past_due)]
             p == pay_installment(acc.schedule[idx], acc.remaining_payment)
             next == [schedule |-> [acc.schedule EXCEPT ![idx] = p.installment],
                      remaining_payment |-> p.remaining_payment,
                      principal_paid |-> acc.principal_paid + p.principal_paid,
                      interest_paid |-> acc.interest_paid + p.interest_paid]
         IN  IF next.remaining_payment <= 0 THEN next
             ELSE past_due_phase_newest_first(
                      next, SubSeq(past_due, 1, Len(past_due) - 1))

\* the running totals of a make_payment call once row idx is written back as
\* p, the outcome of pay_installment, has it
paid_row(acc, idx, p) ==
    [schedule |-> [acc.schedule EXCEPT ![idx] = p.installment],
     remaining_payment |-> p.remaining_payment,
     principal_paid |-> acc.principal_paid + p.principal_paid,
     interest_paid |-> acc.interest_paid + p.interest_paid]

RECURSIVE past_due_phase(_, _)
\* make_payment, first phase: the rows of past_due (index labels, selected
\* before the loop) are paid in index order until the money is used up.
past_due_phase(acc, past_due) ==
    IF past_due = <<>> THEN acc
    ELSE LET next == paid_row(acc, Head(past_due),
                              pay_installment(acc.schedule[Head(past_due)],
                                              acc.remaining_payment))
         IN  IF next.remaining_payment <= 0 THEN next
             ELSE past_due_phase(next, Tail(past_due))

\* make_payment, second phase, given the installment get_next_installment
\* returned: it is paid when it is not paid yet and money is left.
pay_current(acc, current_installment) ==
    IF /\ current_installment # NoInstallment
       /\ ~current_installment.paid
       /\ acc.remaining_payment > 0
    THEN paid_row(acc, current_installment.payment_number,
                  pay_installment(current_installment, acc.remaining_payment))
    ELSE acc

\* make_payment, second phase
current_phase(ext, acc, payment_date) ==
    pay_current(acc,
                get_next_installment(
                    [ext EXCEPT !.payment_schedule = acc.schedule], payment_date))

\* future_installments['remaining_principal'].sum()
sum_remaining_principal(schedule, idxs) ==
    LET S == {idxs[k] : k \in 1..Len(idxs)}
    IN  SumOver(S, [i \in S |-> schedule[i].remaining_principal], 0)

\* future_installments['remaining_interest'].sum()
sum_remaining_interest(schedule, idxs) ==
    LET S == {idxs[k] : k \in 1..Len(idxs)}
    IN  SumOver(S, [i \in S |-> schedule[i].remaining_interest], 0)

RECURSIVE prorate(_, _, _, _)
\* make_payment, third phase, the loop: every future row takes its even share
\* of the money against its principal and of the waived interest against its
\* interest, each capped at what the row has left.
prorate(acc, future, per_installment_principal, per_installment_interest) ==
    IF future = <<>> THEN acc
    ELSE LET idx == Head(future)
             installment == acc.schedule[idx]
             principal_paid ==
                 Min(per_installment_principal, installment.remaining_principal)
             remaining_principal ==
                 Quantize(installment.remaining_principal - principal_paid)
             interest_waived ==
                 Min(per_installment_interest, installment.remaining_interest)
             remaining_interest ==
                 Quantize(installment.remaining_interest - interest_waived)
             row == [installment EXCEPT
                        !.remaining_principal = remaining_principal,
                        !.remaining_interest = remaining_interest,
                        !.paid = installment.paid
                                 \/ (remaining_principal <= 0
                                     /\ remaining_interest <= 0),
                        !.remaining_amount =
                            Quantize(remaining_interest + remaining_principal)]
         IN  prorate([acc EXCEPT
                         !.schedule = [acc.schedule EXCEPT ![idx] = row],
                         !.principal_paid = @ + principal_paid,
                         !.interest_paid = @ + interest_waived],
                     Tail(future), per_installment_principal,
                     per_installment_interest)

\* make_payment, third phase: money still left is spread over the unpaid rows
\* due after payment_date.  The quotient by a zero average principal raises
\* (decimal.DivisionByZero); raised reports it.
future_phase(acc, payment_date) ==
    LET future == future_installments(acc.schedule, payment_date)
        n == Len(future)
        total_future_principal ==
            sum_remaining_principal(acc.schedule, future)
        total_future_interest ==
            sum_remaining_interest(acc.schedule, future)
        \* int(remaining_payment / (total_future_principal / n))
        installments_covered ==
            TruncDiv(acc.remaining_payment * n, total_future_principal)
        \* (total_future_interest / n) * installments_covered / n
        per_installment_interest ==
            (total_future_interest * installments_covered) \div (n * n)
        per_installment_principal == acc.remaining_payment \div n
    IN  IF acc.remaining_payment > 0 /\ future # <<>>
        THEN IF total_future_principal = 0
             THEN [acc |-> acc, raised |-> TRUE]
             ELSE [acc |-> prorate(acc, future, per_installment_principal,
                                   per_installment_interest),
                   raised |-> FALSE]
        ELSE [acc |-> acc, raised |-> FALSE]

NoPayment == [payment_amount |-> 0]

\* make_payment, the end: the balance, the payment record and the status,
\* after_future being what the three phases left.  When the third phase
\* raised, the rows already written by the first two stay written and
\* nothing is recorded or returned.
record_payment(ext, amount, payment_date, after_future) ==
    LET done == after_future.acc
        current_balance == Max(0, ext.current_balance - done.principal_paid)
        payment == [payment_date |-> payment_date,
                    payment_amount |-> amount,
                    principal_paid |-> done.principal_paid,
                    interest_paid |-> done.interest_paid,
                    remaining_balance |-> current_balance]
    IN  IF after_future.raised
        THEN [ext |-> [ext EXCEPT !.payment_schedule = done.schedule],
              payment |-> NoPayment,
              raised |-> TRUE]
        ELSE [ext |-> [ext EXCEPT
                          !.payment_schedule = done.schedule,
                          !.current_balance = current_balance,
                          !.payments = Append(@, payment),
                          !.status =
                              IF \A i \in 1..Len(done.schedule) :
                                     done.schedule[i].paid
                              THEN "PAID" ELSE @],
              payment |-> payment,
              raised |-> FALSE]

\* ExtensionProduct.make_payment: the extension after the call and the payment
\* record returned.
make_payment(ext, amount, payment_date) ==
    record_payment(
        ext, amount, payment_date,
        future_phase(
            current_phase(
                ext,
                past_due_phase(
                    [schedule |-> ext.payment_schedule,
                     remaining_payment |-> amount,
                     principal_paid |-> 0,
                     interest_paid |-> 0],
                    past_due_rows(ext.payment_schedule, payment_date)),
                payment_date),
            payment_date))

\* ExtensionProduct.pay_past_due_amount
pay_past_due_amount(ext, payment_date, payment_amount) ==
    LET past_due_amount == get_past_due_amount(ext, payment_date)
    IN  make_payment(ext,
                     IF past_due_amount > payment_amount
                     THEN payment_amount ELSE past_due_amount,
                     payment_date)

\* ------------------------------------------------------ ExtensionFactory
\* ExtensionFactory.create_extension
create_extension(exts, amount, start_date, term_months, apr) ==
    Append(exts, ExtensionProduct(amount, start_date, term_months, apr))

Active(exts) == {e \in 1..Len(exts) : exts[e].status = "ACTIVE"}

\* Variant of the registry's get_past_due_amount that stops at the first ACTIVE
\* extension; the aggregates of C15 must tell it from the code.
factory_first_past_due_amount(exts, payment_date) ==
    IF Active(exts) = {} THEN 0
    ELSE get_past_due_amount(
             exts[CHOOSE e \in Active(exts) : \A f \in Active(exts) : e <= f],
             payment_date)

\* ExtensionFactory.get_past_due_amount
factory_get_past_due_amount(exts, payment_date) ==
    SumOver(Active(exts),
            [e \in Active(exts) |-> get_past_due_amount(exts[e], payment_date)],
            0)

\* ExtensionFactory.get_next_due_amount
factory_get_next_due_amount(exts, payment_date) ==
    SumOver(Active(exts),
            [e \in Active(exts) |-> get_next_due_amount(exts[e], payment_date)],
            0)

\* Variant of installments_of that collects the past-due rows only; the
\* coverage of the next installment in C3 must tell it from the code.
installments_of_past_due_only(exts, e, payment_date) ==
    LET past_due == get_past_due_installments(exts[e], payment_date)
    IN  [i \in 1..Len(past_due) |->
             [extension |-> e,
              payment_date |-> past_due[i].payment_date,
              payment_number |-> past_due[i].payment_number,
              remaining_amount |-> past_due[i].remaining_amount]]

\* The entries _make_past_due_next_due_payment collects for one extension:
\* its past-due rows, then its next installment when there is one.
installments_of(exts, e, payment_date) ==
    LET past_due == get_past_due_installments(exts[e], payment_date)
        next_due == get_next_installment(exts[e], payment_date)
        entry(r) == [extension |-> e,
                     payment_date |-> r.payment_date,
                     payment_number |-> r.payment_number,
                     remaining_amount |-> r.remaining_amount]
    IN  [i \in 1..Len(past_due) |-> entry(past_due[i])]
        \o (IF next_due = NoInstallment THEN <<>> ELSE <<entry(next_due)>>)

RECURSIVE collect_installments(_, _, _)
\* all_installments before the sort: the entries of the ACTIVE extensions, in
\* registration order
collect_installments(exts, e, payment_date) ==
    IF e > Len(exts) THEN <<>>
    ELSE (IF exts[e].status = "ACTIVE"
          THEN installments_of(exts, e, payment_date) ELSE <<>>)
         \o collect_installments(exts, e + 1, payment_date)

RECURSIVE pay_in_order(_, _, _)
\* one turn of the loop of _make_past_due_next_due_payment, made being what
\* make_payment did for the entry installment; an exception ends the loop
\* and the call.
pay_entry(st, installment, rest, payment_date, made) ==
    IF made.raised
    THEN [st EXCEPT !.extensions[installment.extension] = made.ext,
                    !.raised = TRUE]
    ELSE pay_in_order(
             [st EXCEPT
                 !.extensions[installment.extension] = made.ext,
                 !.remaining_payment = @ - made.payment.payment_amount,
                 !.payments = Append(@, made.payment),
                 !.paid_to = Append(@, installment)],
             rest, payment_date)

\* the loop of _make_past_due_next_due_payment over the sorted entries;
\* paid_to records, beside each payment made, the entry it was made for
pay_in_order(st, all_installments, payment_date) ==
    IF all_installments = <<>> \/ st.remaining_payment <= 0 THEN st
    ELSE pay_entry(st, Head(all_installments), Tail(all_installments),
                   payment_date,
                   make_payment(
                       st.extensions[Head(all_installments).extension],
                       Min(Head(all_installments).remaining_amount,
                           st.remaining_payment),
                       payment_date))

\* ExtensionFactory._make_past_due_next_due_payment (allocate_payment)
make_past_due_next_due_payment(exts, payment_date, amount) ==
    LET all_installments == SortByDate(collect_installments(exts, 1, payment_date))
    IN  pay_in_order([extensions |-> exts,
                      remaining_payment |-> amount,
                      payments |-> <<>>,
                      paid_to |-> <<>>,
                      raised |-> FALSE],
                     all_installments, payment_date)

\* ------------------------------------------------ engine.ExtensionProduct
\* engine.ExtensionProduct.__init__ divides by the requested term
engine_raises(term_months) == term_months = 0

\* engine.ExtensionProduct.__init__ (float arithmetic, exact for the inputs
\* explored): the stored term is clamped, the interest, the monthly payment
\* and the rows are computed from the requested term.
engine_ExtensionProduct(amount, start_date, term_months, apr) ==
    LET total_interest == ((amount \div 100) * apr * term_months) \div 12
        monthly_payment == (amount + total_interest) \div term_months
        monthly_principal == amount \div term_months
        monthly_interest == total_interest \div term_months
        row(month) ==
            [payment_number |-> month,
             payment_date |-> add_months(start_date, month),
             payment_amount |-> monthly_payment,
             principal_amount |-> monthly_principal,
             interest_amount |-> monthly_interest,
             remaining_principal |-> monthly_principal,
             remaining_interest |-> monthly_interest,
             paid |-> FALSE]
    IN  [original_amount |-> amount,
         start_date |-> start_date,
         term_months |-> Min(Max(1, term_months), 12),
         apr |-> apr,
         status |-> "ACTIVE",
         monthly_payment |-> monthly_payment,
         payment_schedule |-> [month \in 1..term_months |-> row(month)],
         payments |-> <<>>,
         current_balance |-> amount]

\* engine.ExtensionProduct.make_payment, one installment paid from
\* remaining_payment, principal first and then interest when money is left
engine_pay_installment(installment, remaining_payment) ==
    LET principal_payment ==
            Min(remaining_payment, installment.remaining_principal)
        remaining_principal ==
            installment.remaining_principal - principal_payment
        left == remaining_payment - principal_payment
        interest_payment ==
            IF left > 0 THEN Min(left, installment.remaining_interest) ELSE 0
        remaining_interest == installment.remaining_interest - interest_payment
    IN  [installment |->
             [installment EXCEPT
                 !.remaining_principal = remaining_principal,
                 !.remaining_interest = remaining_interest,
                 !.paid = installment.paid
                          \/ (remaining_principal <= 0 /\ remaining_interest <= 0)],
         remaining_payment |-> left - interest_payment,
         principal_paid |-> principal_payment,
         interest_paid |-> interest_payment]

\* the running totals once row idx is written back as p, the outcome of
\* engine_pay_installment, has it
engine_paid_row(acc, idx, p) ==
    [schedule |-> [acc.schedule EXCEPT ![idx] = p.installment],
     remaining_payment |-> p.remaining_payment,
     principal_paid |-> acc.principal_paid + p.principal_paid,
     interest_paid |-> acc.interest_paid + p.interest_paid]

RECURSIVE engine_past_due_phase(_, _)
\* first phase: the unpaid rows due before payment_date, in index order,
\* until the money is used up
engine_past_due_phase(acc, past_due) ==
    IF past_due = <<>> THEN acc
    ELSE IF engine_paid_row(
                acc, Head(past_due),
                engine_pay_installment(acc.schedule[Head(past_due)],
                                       acc.remaining_payment)
            ).remaining_payment <= 0
    THEN engine_paid_row(
             acc, Head(past_due),
             engine_pay_installment(acc.schedule[Head(past_due)],
                                    acc.remaining_payment))
    ELSE engine_past_due_phase(
             engine_paid_row(
                 acc, Head(past_due),
                 engine_pay_installment(acc.schedule[Head(past_due)],
                                        acc.remaining_payment)),
             Tail(past_due))

\* the unpaid rows due on or after payment_date
engine_current_rows(schedule, payment_date) ==
    SelectSeq([i \in 1..Len(schedule) |-> i],
              LAMBDA i : schedule[i].payment_date >= payment_date
                         /\ ~schedule[i].paid)

\* second phase: the first unpaid row due on or after payment_date is paid
\* when money is left
engine_current_phase(acc, payment_date) ==
    IF /\ engine_current_rows(acc.schedule, payment_date) # <<>>
       /\ acc.remaining_payment > 0
    THEN engine_paid_row(
             acc, Head(engine_current_rows(acc.schedule, payment_date)),
             engine_pay_installment(
                 acc.schedule[Head(engine_current_rows(acc.schedule,
                                                       payment_date))],
                 acc.remaining_payment))
    ELSE acc

RECURSIVE engine_prorate(_, _, _, _)
\* third phase, the loop: every future row takes its even share of the money
\* against its principal and of the waived interest against its interest,
\* each capped at what the row has left
engine_prorate(acc, future, per_installment_principal, per_installment_interest) ==
    IF future = <<>> THEN acc
    ELSE engine_prorate(
             [acc EXCEPT
                 !.schedule =
                     [acc.schedule EXCEPT
                         ![Head(future)] =
                             [@ EXCEPT
                                 !.remaining_principal =
                                     @ - Min(per_installment_principal, @),
                                 !.remaining_interest =
                                     @ - Min(per_installment_interest, @),
                                 !.paid =
                                     \/ @
                                     \/ /\ acc.schedule[Head(future)]
                                               .remaining_principal
                                           <= per_installment_principal
                                        /\ acc.schedule[Head(future)]
                                               .remaining_interest
                                           <= per_installment_interest]],
                 !.principal_paid =
                     @ + Min(per_installment_principal,
                             acc.schedule[Head(future)].remaining_principal),
                 !.interest_paid =
                     @ + Min(per_installment_interest,
                             acc.schedule[Head(future)].remaining_interest)],
             Tail(future), per_installment_principal,
             per_installment_interest)

\* third phase: money still left is spread over the unpaid rows due after
\* payment_date; the quotient by a zero average principal raises
\* ZeroDivisionError
engine_future_phase(acc, payment_date) ==
    LET future == future_installments(acc.schedule, payment_date)
        n == Len(future)
        total_future_principal ==
            sum_remaining_principal(acc.schedule, future)
        total_future_interest ==
            sum_remaining_interest(acc.schedule, future)
        installments_covered ==
            TruncDiv(acc.remaining_payment * n, total_future_principal)
        per_installment_interest ==
            (total_future_interest * installments_covered) \div (n * n)
        per_installment_principal == acc.remaining_payment \div n
    IN  IF acc.remaining_payment > 0 /\ future # <<>>
        THEN IF total_future_principal = 0
             THEN [acc |-> acc, raised |-> TRUE]
             ELSE [acc |-> engine_prorate(acc, future,
                                          per_installment_principal,
                                          per_installment_interest),
                   raised |-> FALSE]
        ELSE [acc |-> acc, raised |-> FALSE]

\* the end of make_payment: the balance, the payment record and the status;
\* when the third phase raised, the rows already written stay written and
\* nothing is recorded or returned
engine_record_payment(ext, amount, payment_date, after_future) ==
    IF after_future.raised
    THEN [ext |-> [ext EXCEPT !.payment_schedule = after_future.acc.schedule],
          payment |-> NoPayment,
          raised |-> TRUE]
    ELSE [ext |->
              [ext EXCEPT
                  !.payment_schedule = after_future.acc.schedule,
                  !.current_balance =
                      Max(0, @ - after_future.acc.principal_paid),
                  !.payments =
                      Append(@,
                             [payment_date |-> payment_date,
                              payment_amount |-> amount,
                              principal_paid |->
                                  after_future.acc.principal_paid,
                              interest_paid |-> after_future.acc.interest_paid,
                              remaining_balance |->
                                  Max(0, ext.current_balance
                                         - after_future.acc.principal_paid)]),
                  !.status =
                      IF \A i \in DOMAIN after_future.acc.schedule :
                             after_future.acc.schedule[i].paid
                      THEN "PAID" ELSE @],
          payment |->
              [payment_date |-> payment_date,
               payment_amount |-> amount,
               principal_paid |-> after_future.acc.principal_paid,
               interest_paid |-> after_future.acc.interest_paid,
               remaining_balance |->
                   Max(0, ext.current_balance
                          - after_future.acc.principal_paid)],
          raised |-> FALSE]

\* engine.ExtensionProduct.make_payment (float arithmetic, in exact units):
\* the extension after the call and the payment record returned
engine_make_payment(ext, amount, payment_date) ==
    engine_record_payment(
        ext, amount, payment_date,
        engine_future_phase(
            engine_current_phase(
                engine_past_due_phase(
                    [schedule |-> ext.payment_schedule,
                     remaining_payment |-> amount,
                     principal_paid |-> 0,
                     interest_paid |-> 0],
                    past_due_rows(ext.payment_schedule, payment_date)),
                payment_date),
            payment_date))

\* ------------------------------------------------------- calendar days
\* days from a fixed origin to the date (proleptic Gregorian calendar)
DayNumber(date) ==
    LET y == IF MonthOf(date) <= 2 THEN YearOf(date) - 1 ELSE YearOf(date)
        m == IF MonthOf(date) <= 2 THEN MonthOf(date) + 9
             ELSE MonthOf(date) - 3
    IN  (365 * y) + (y \div 4) - (y \div 100) + (y \div 400)
        + (((153 * m) + 2) \div 5) + DayOf(date) - 1

\* datetime.date.weekday: Monday is 0, Sunday is 6
weekday(date) == (DayNumber(date) + 2) % 7

\* date + timedelta(days=1)
next_day(date) ==
    IF DayOf(date) < DaysInMonth(YearOf(date), MonthOf(date))
    THEN date + 1
    ELSE IF MonthOf(date) = 12 THEN MkDate(YearOf(date) + 1, 1, 1)
    ELSE MkDate(YearOf(date), MonthOf(date) + 1, 1)

\* date - timedelta(days=1)
prev_day(date) ==
    IF DayOf(date) > 1 THEN date - 1
    ELSE IF MonthOf(date) = 1 THEN MkDate(YearOf(date) - 1, 12, 31)
    ELSE MkDate(YearOf(date), MonthOf(date) - 1,
                DaysInMonth(YearOf(date), MonthOf(date) - 1))

\* KeepCardSimulator.holidays
holidays ==
    {MkDate(2025, 1, 1), MkDate(2025, 4, 18), MkDate(2025, 5, 19),
     MkDate(2025, 7, 1), MkDate(2025, 8, 4), MkDate(2025, 9, 1),
     MkDate(2025, 10, 13), MkDate(2025, 11, 11), MkDate(2025, 12, 25),
     MkDate(2025, 12, 26)}

\* KeepCardSimulator.is_business_day
is_business_day(date) == weekday(date) < 5 /\ date \notin holidays

RECURSIVE first_business_day(_)
\* the loop of get_next_business_day: the first business day from date on
first_business_day(date) ==
    IF is_business_day(date) THEN date ELSE first_business_day(next_day(date))

\* KeepCardSimulator.get_next_business_day
get_next_business_day(date) == first_business_day(next_day(date))

\* ------------------------------------------------------- float arithmetic
\* A Python float is an IEEE 754 double.  A double other than 0 is
\* [neg, exp, m]: its value is m * 2^exp, negated when neg, with
\* 2^52 <= m < 2^53.  The 53 to 57 bits of a significand are held in two
\* limbs <<hi, lo>>, hi * Limb + lo, with lo < Limb.
Limb == 268435456          \* 2^28

Zero == [neg |-> FALSE, exp |-> 0, m |-> <<0, 0>>]

WAdd(x, y) == <<x[1] + y[1] + ((x[2] + y[2]) \div Limb), (x[2] + y[2]) % Limb>>

\* x - y, for x >= y
WSub(x, y) == <<x[1] - y[1] + ((x[2] - y[2]) \div Limb), (x[2] - y[2]) % Limb>>

WLess(x, y) == x[1] < y[1] \/ (x[1] = y[1] /\ x[2] < y[2])

WDouble(x) == <<(x[1] * 2) + ((x[2] * 2) \div Limb), (x[2] * 2) % Limb>>

\* x with its lowest bit set: what was shifted out was not 0 (the sticky bit)
WSticky(x) == IF x[2] % 2 = 1 THEN x ELSE <<x[1], x[2] + 1>>

\* x shifted right by one bit, the bit shifted out kept as the sticky bit
WHalf(x) ==
    IF x[2] % 2 = 1
    THEN WSticky(<<x[1] \div 2, ((x[1] % 2) * (Limb \div 2)) + (x[2] \div 2)>>)
    ELSE <<x[1] \div 2, ((x[1] % 2) * (Limb \div 2)) + (x[2] \div 2)>>

RECURSIVE WShiftRight(_, _)
\* x shifted right by d bits, sticky
WShiftRight(x, d) ==
    IF d = 0 \/ x = <<0, 1>> \/ x = <<0, 0>> THEN x
    ELSE WShiftRight(WHalf(x), d - 1)

\* the significand m with three more bits below it: guard, round and sticky
WTimes8(m) == WDouble(WDouble(WDouble(m)))

\* the 53 bits above the guard, round and sticky bits of s
WOver8(s) == <<s[1] \div 8, ((s[1] % 8) * (Limb \div 8)) + (s[2] \div 8)>>

\* round to nearest, ties to even: s has 56 bits, its value is s * 2^exp
round_to_nearest(neg, exp, s) ==
    IF (s[2] % 8) > 4 \/ ((s[2] % 8) = 4 /\ (WOver8(s)[2] % 2) = 1)
    THEN IF WAdd(WOver8(s), <<0, 1>>)[1] >= Limb \div 8
         THEN [neg |-> neg, exp |-> exp + 4, m |-> <<Limb \div 16, 0>>]
         ELSE [neg |-> neg, exp |-> exp + 3,
               m |-> WAdd(WOver8(s), <<0, 1>>)]
    ELSE [neg |-> neg, exp |-> exp + 3, m |-> WOver8(s)]

RECURSIVE normalized(_, _, _)
\* the double nearest to s * 2^exp, for s other than 0
normalized(neg, exp, s) ==
    IF s[1] >= Limb THEN normalized(neg, exp + 1, WHalf(s))
    ELSE IF s[1] < Limb \div 2 THEN normalized(neg, exp - 1, WDouble(s))
    ELSE round_to_nearest(neg, exp, s)

\* a + b for |a| >= |b|, neither 0: the sum or difference of the significands
fadd_significands(a, b, eb) ==
    IF a.neg = b.neg THEN WAdd(WTimes8(a.m), eb) ELSE WSub(WTimes8(a.m), eb)

\* a + b for |a| >= |b|, neither 0
fadd_ordered(a, b) ==
    IF fadd_significands(a, b, WShiftRight(WTimes8(b.m), a.exp - b.exp))
           = <<0, 0>>
    THEN Zero
    ELSE normalized(a.neg, a.exp - 3,
                    fadd_significands(a, b,
                                      WShiftRight(WTimes8(b.m),
                                                  a.exp - b.exp)))

\* float.__add__
fadd(a, b) ==
    IF a.m = <<0, 0>> THEN b
    ELSE IF b.m = <<0, 0>> THEN a
    ELSE IF a.exp > b.exp \/ (a.exp = b.exp /\ ~WLess(a.m, b.m))
    THEN fadd_ordered(a, b)
    ELSE fadd_ordered(b, a)

\* float.__neg__ (a zero keeps its sign here: no negative zero is made)
fneg(a) == IF a.m = <<0, 0>> THEN a ELSE [a EXCEPT !.neg = ~a.neg]

\* float.__sub__
fsub(a, b) == fadd(a, fneg(b))

\* a < 0
is_negative(a) == a.neg /\ a.m # <<0, 0>>

RECURSIVE float_of_quotient(_, _, _, _, _)
\* the double nearest to (q + r / d) * 2^exp, by long division
float_of_quotient(neg, exp, q, r, d) ==
    IF q[1] >= Limb \div 2
    THEN round_to_nearest(neg, exp, IF r # 0 THEN WSticky(q) ELSE q)
    ELSE float_of_quotient(neg, exp - 1,
                           WAdd(WDouble(q),
                                <<0, IF 2 * r >= d THEN 1 ELSE 0>>),
                           (2 * r) % d, d)

\* float(amount) of an amount of so many cents: the double nearest to
\* cents / 100
float_of_cents(cents) ==
    IF cents = 0 THEN Zero
    ELSE IF cents < 0
    THEN float_of_quotient(TRUE, 0, <<0, (0 - cents) \div 100>>,
                           (0 - cents) % 100, 100)
    ELSE float_of_quotient(FALSE, 0, <<0, cents \div 100>>, cents % 100, 100)

\* ------------------------------------------------------ KeepCardSimulator
\* an unset cell (None) is the empty sequence, a set cell <<value>>
None == <<>>
Some(value) == <<value>>

\* KeepCardSimulator.__init__
KeepCardSimulator(statement_cycle_start) ==
    [statement_cycle_start |-> statement_cycle_start,
     transactions |-> <<>>,
     statements |-> <<>>,
     extensions |-> <<>>]

\* add_transaction: the direction of a transaction type
direction_of(transaction_type) ==
    IF transaction_type \in {"PAYMENT", "REFUND", "EXTENSION"} THEN "CREDIT"
    ELSE "DEBIT"

\* add_transaction: the new row (its uuid is left out); amount is the float
new_transaction(transaction_type, amount, effective_date, created_at) ==
    [type |-> transaction_type,
     direction |-> direction_of(transaction_type),
     amount |-> amount,
     effective_date |-> effective_date,
     created_at |-> created_at,
     balance |-> Zero]

\* pd.Categorical(categories=['EXTENSION', 'PAYMENT', 'PURCHASE']): the code
\* of a type; every other type is NaN, which sort_values puts last
type_code(transaction_type) ==
    IF transaction_type = "EXTENSION" THEN 0
    ELSE IF transaction_type = "PAYMENT" THEN 1
    ELSE IF transaction_type = "PURCHASE" THEN 2
    ELSE 3

\* row a sorts no later than row b by (effective_date, type)
sorts_before_or_with(a, b) ==
    \/ a.effective_date < b.effective_date
    \/ /\ a.effective_date = b.effective_date
       /\ type_code(a.type) <= type_code(b.type)

RECURSIVE sort_values_by_date(_)
\* Variant of sort_values that orders the rows by effective_date alone; the
\* order within one date of C16 must tell it from the code.
sort_values_by_date(rows) ==
    IF rows = <<>> THEN <<>>
    ELSE LET k == CHOOSE i \in 1..Len(rows) :
                      /\ \A j \in 1..Len(rows) :
                             rows[i].effective_date <= rows[j].effective_date
                      /\ \A j \in 1..(i - 1) :
                             rows[j].effective_date # rows[i].effective_date
             rest == [j \in 1..(Len(rows) - 1) |->
                          IF j < k THEN rows[j] ELSE rows[j + 1]]
         IN  <<rows[k]>> \o sort_values_by_date(rest)

RECURSIVE sort_values(_)
\* DataFrame.sort_values(by=['effective_date', 'type']): ascending, rows
\* with equal keys keep the order they had
sort_values(rows) ==
    IF rows = <<>> THEN <<>>
    ELSE LET k == CHOOSE i \in 1..Len(rows) :
                      /\ \A j \in 1..Len(rows) :
                             sorts_before_or_with(rows[i], rows[j])
                      /\ \A j \in 1..(i - 1) :
                             ~sorts_before_or_with(rows[j], rows[i])
             rest == [j \in 1..(Len(rows) - 1) |->
                          IF j < k THEN rows[j] ELSE rows[j + 1]]
         IN  <<rows[k]>> \o sort_values(rest)

\* _recalculate_balance: the balance after one more row
balance_after(balance, transaction) ==
    IF transaction.direction = "DEBIT" THEN fadd(balance, transaction.amount)
    ELSE fsub(balance, transaction.amount)

RECURSIVE recalculate_from(_, _, _)
\* the loop of _recalculate_balance from row idx on
recalculate_from(transactions, idx, balance) ==
    IF idx > Len(transactions) THEN transactions
    ELSE recalculate_from(
             [transactions EXCEPT ![idx].balance =
                  balance_after(balance, transactions[idx])],
             idx + 1,
             balance_after(balance, transactions[idx]))

\* KeepCardSimulator._recalculate_balance
recalculate_balance(transactions) == recalculate_from(transactions, 1, Zero)

\* ------------------------------------------------- _generate_statements
\* datetime.date(...) of a day the month does not have raises ValueError
NoDate == 0

\* datetime.date(year, month, statement_cycle_start)
cycle_date(year, month, statement_cycle_start) ==
    IF statement_cycle_start <= DaysInMonth(year, month)
    THEN MkDate(year, month, statement_cycle_start)
    ELSE NoDate

\* the cycle day of the month before the given one
previous_cycle_date(year, month, statement_cycle_start) ==
    IF month = 1 THEN cycle_date(year - 1, 12, statement_cycle_start)
    ELSE cycle_date(year, month - 1, statement_cycle_start)

\* the start of the first statement, before the step back of one month
first_candidate(min_date, statement_cycle_start) ==
    IF DayOf(min_date) < statement_cycle_start
    THEN cycle_date(YearOf(min_date), MonthOf(min_date),
                    statement_cycle_start)
    ELSE previous_cycle_date(YearOf(min_date), MonthOf(min_date),
                             statement_cycle_start)

\* the start of the first statement; NoDate when the code raises ValueError
first_cycle_start(min_date, statement_cycle_start) ==
    LET current_start == first_candidate(min_date, statement_cycle_start)
    IN  IF current_start = NoDate THEN NoDate
        ELSE IF current_start > min_date
        THEN previous_cycle_date(YearOf(current_start),
                                 MonthOf(current_start),
                                 statement_cycle_start)
        ELSE current_start

\* the last day of the month after the month of the date
last_day_of_next_month(date) ==
    IF MonthOf(date) = 12 THEN MkDate(YearOf(date) + 1, 1, 31)
    ELSE MkDate(YearOf(date), MonthOf(date) + 1,
                DaysInMonth(YearOf(date), MonthOf(date) + 1))

\* the start of the cycle after the one starting at current_start
next_cycle_start(current_start, statement_cycle_start) ==
    IF MonthOf(current_start) = 12
    THEN MkDate(YearOf(current_start) + 1, 1, statement_cycle_start)
    ELSE IF cycle_date(YearOf(current_start), MonthOf(current_start) + 1,
                       statement_cycle_start) # NoDate
    THEN cycle_date(YearOf(current_start), MonthOf(current_start) + 1,
                    statement_cycle_start)
    ELSE last_day_of_next_month(current_start)

\* the end of the open statement starting at next_start
next_end(next_start, statement_cycle_start) ==
    IF MonthOf(next_start) = 12
    THEN prev_day(MkDate(YearOf(next_start) + 1, 1, statement_cycle_start))
    ELSE IF cycle_date(YearOf(next_start), MonthOf(next_start) + 1,
                       statement_cycle_start) # NoDate
    THEN prev_day(cycle_date(YearOf(next_start), MonthOf(next_start) + 1,
                             statement_cycle_start))
    ELSE last_day_of_next_month(next_start)

\* the ledger rows with effective_date in [current_start, end_date]
stmt_transactions(transactions, current_start, end_date) ==
    LET InPeriod(t) == /\ t.effective_date >= current_start
                       /\ t.effective_date <= end_date
    IN  SelectSeq(transactions, InPeriod)

RECURSIVE amount_of_any_type(_, _, _)
\* Variant of amount_of_type that adds up the rows of every type; the
\* aggregates of C19 must tell it from the code.
amount_of_any_type(rows, transaction_type, total) ==
    IF rows = <<>> THEN total
    ELSE amount_of_any_type(Tail(rows), transaction_type,
                            fadd(total, Head(rows).amount))

RECURSIVE amount_of_type(_, _, _)
\* stmt_transactions[stmt_transactions['type'] == type]['amount'].sum():
\* the amounts of the rows of the type added to total, first row first
amount_of_type(rows, transaction_type, total) ==
    IF rows = <<>> THEN total
    ELSE amount_of_type(Tail(rows), transaction_type,
                        IF Head(rows).type = transaction_type
                        THEN fadd(total, Head(rows).amount)
                        ELSE total)

\* the balance of the last row before the period, 0.0 when there is none
balance_before(transactions, current_start) ==
    LET Earlier(t) == t.effective_date < current_start
        txs_before_period == SelectSeq(transactions, Earlier)
    IN  IF txs_before_period = <<>> THEN Zero
        ELSE txs_before_period[Len(txs_before_period)].balance

\* the beginning balance of the statement that follows statement_list
beginning_balance(transactions, statement_list, current_start) ==
    IF statement_list # <<>>
    THEN statement_list[Len(statement_list)].ending_balance[1]
    ELSE balance_before(transactions, current_start)

\* one closed statement over the rows of its period
closed_statement(current_start, end_date, beginning, rows) ==
    [start_date |-> current_start,
     end_date |-> end_date,
     due_date |-> get_next_business_day(end_date),
     beginning_balance |-> beginning,
     ending_balance |->
         Some(fsub(fsub(fsub(fadd(beginning,
                                  amount_of_type(rows, "PURCHASE", Zero)),
                             amount_of_type(rows, "REFUND", Zero)),
                        amount_of_type(rows, "PAYMENT", Zero)),
                   amount_of_type(rows, "EXTENSION", Zero))),
     purchases_amount |-> Some(amount_of_type(rows, "PURCHASE", Zero)),
     refunds_amount |-> Some(amount_of_type(rows, "REFUND", Zero)),
     payments_amount |-> Some(amount_of_type(rows, "PAYMENT", Zero)),
     extensions_amount |-> Some(amount_of_type(rows, "EXTENSION", Zero)),
     balance_due |-> Zero,
     transactions |-> rows]

\* the open statement after the closed ones
open_statement(next_start, statement_cycle_start, beginning) ==
    [start_date |-> next_start,
     end_date |-> next_end(next_start, statement_cycle_start),
     due_date |->
         get_next_business_day(next_end(next_start, statement_cycle_start)),
     beginning_balance |-> beginning,
     ending_balance |-> None,
     purchases_amount |-> None,
     refunds_amount |-> None,
     payments_amount |-> None,
     extensions_amount |-> None,
     balance_due |-> Zero,
     transactions |-> <<>>]

RECURSIVE statement_loop(_, _, _, _, _)
\* the loop over the cycles up to max_date, then the open statement
statement_loop(transactions, statement_cycle_start, current_start, max_date, statement_list) ==
    IF current_start <= max_date
    THEN statement_loop(
             transactions, statement_cycle_start,
             next_cycle_start(current_start, statement_cycle_start),
             max_date,
             Append(statement_list,
                    closed_statement(
                        current_start,
                        prev_day(next_cycle_start(current_start,
                                                  statement_cycle_start)),
                        beginning_balance(transactions, statement_list,
                                          current_start),
                        stmt_transactions(
                            transactions, current_start,
                            prev_day(next_cycle_start(
                                         current_start,
                                         statement_cycle_start))))))
    ELSE IF statement_list # <<>>
    THEN Append(statement_list,
                open_statement(
                    current_start, statement_cycle_start,
                    statement_list[Len(statement_list)].ending_balance[1]))
    ELSE statement_list

\* Variant of update_balance_due that leaves every balance_due as the loop
\* set it; the balance_due of C22 must tell it from the code.
keep_balance_due(statements) == statements

\* the balance_due of every statement but the first: its beginning balance,
\* 0 when that is negative
update_balance_due(statements) ==
    [i \in DOMAIN statements |->
         IF i >= 2
         THEN [statements[i] EXCEPT !.balance_due =
                   IF is_negative(statements[i].beginning_balance) THEN Zero
                   ELSE statements[i].beginning_balance]
         ELSE statements[i]]

\* transactions['effective_date'].min() of a ledger that is not empty
min_effective_date(transactions) ==
    CHOOSE d \in {transactions[i].effective_date : i \in DOMAIN transactions} :
        \A i \in DOMAIN transactions : d <= transactions[i].effective_date

\* Variant of max_effective_date that takes the earliest date; the open
\* statement of C21 must tell it from the code.
max_effective_date_earliest(transactions) ==
    CHOOSE d \in {transactions[i].effective_date : i \in DOMAIN transactions} :
        \A i \in DOMAIN transactions : d <= transactions[i].effective_date

\* transactions['effective_date'].max() of a ledger that is not empty
max_effective_date(transactions) ==
    CHOOSE d \in {transactions[i].effective_date : i \in DOMAIN transactions} :
        \A i \in DOMAIN transactions : d >= transactions[i].effective_date

\* _generate_statements raises ValueError: the first cycle day does not exist
statements_raise(transactions, statement_cycle_start) ==
    /\ transactions # <<>>
    /\ first_cycle_start(min_effective_date(transactions), statement_cycle_start)
           = NoDate

\* KeepCardSimulator._generate_statements
generate_statements(transactions, statement_cycle_start) ==
    IF transactions = <<>> THEN <<>>
    ELSE update_balance_due(
             statement_loop(
                 transactions, statement_cycle_start,
                 first_cycle_start(min_effective_date(transactions),
                                   statement_cycle_start),
                 max_effective_date(transactions), <<>>))

\* the ledger after add_transaction's concat, sort and balances
appended(transactions, transaction_type, amount, effective_date, created_at) ==
    recalculate_balance(
        sort_values(Append(transactions,
                           new_transaction(transaction_type, amount,
                                           effective_date, created_at))))

\* the simulator with a new ledger and the statements generated from it;
\* when the generation raises, the statements stay as they were
with_ledger(sim, transactions) ==
    [sim EXCEPT
         !.transactions = transactions,
         !.statements =
             IF statements_raise(transactions, sim.statement_cycle_start)
             THEN sim.statements
             ELSE generate_statements(transactions,
                                      sim.statement_cycle_start)]

\* KeepCardSimulator.add_transaction
add_transaction(sim, transaction_type, amount, effective_date, created_at) ==
    with_ledger(sim, appended(sim.transactions, transaction_type, amount,
                              effective_date, created_at))

\* add_transaction raises
add_transaction_raises(sim, transaction_type, amount, effective_date, created_at) ==
    statements_raise(appended(sim.transactions, transaction_type, amount,
                              effective_date, created_at),
                     sim.statement_cycle_start)

\* the simulator with one more extension product, its id being EXT- and its
\* place in the list
with_extension(sim, extension) ==
    [sim EXCEPT
         !.extensions =
             Append(sim.extensions,
                    [extension_id |-> Len(sim.extensions) + 1] @@ extension)]

\* KeepCardSimulator.create_statement_extension of an amount of so many
\* cents: the EXTENSION transaction first, then the product; a raise in either
\* leaves what was done before it
create_statement_extension(sim, cents, effective_date, term_months, apr) ==
    IF \/ add_transaction_raises(sim, "EXTENSION", float_of_cents(cents),
                                 effective_date, effective_date)
       \/ engine_raises(term_months)
    THEN add_transaction(sim, "EXTENSION", float_of_cents(cents),
                         effective_date, effective_date)
    ELSE with_extension(
             add_transaction(sim, "EXTENSION", float_of_cents(cents),
                             effective_date, effective_date),
             engine_ExtensionProduct(cents * Cent, effective_date,
                                     term_months, apr))

\* create_statement_extension raises
create_statement_extension_raises(sim, cents, effective_date, term_months, apr) ==
    \/ add_transaction_raises(sim, "EXTENSION", float_of_cents(cents),
                              effective_date, effective_date)
    \/ engine_raises(term_months)

\* Variant of extension_index that takes the first extension when no id
\* matches; the NotFound of C28 must tell it from the code.
extension_index_or_first(extension_list, extension_id) ==
    IF \E i \in DOMAIN extension_list :
           extension_list[i].extension_id = extension_id
    THEN CHOOSE i \in DOMAIN extension_list :
             /\ extension_list[i].extension_id = extension_id
             /\ \A j \in 1..(i - 1) :
                    extension_list[j].extension_id # extension_id
    ELSE IF extension_list # <<>> THEN 1 ELSE 0

\* make_extension_payment, the search: the place of the first extension with
\* the id, 0 when there is none
extension_index(extension_list, extension_id) ==
    IF \E i \in DOMAIN extension_list :
           extension_list[i].extension_id = extension_id
    THEN CHOOSE i \in DOMAIN extension_list :
             /\ extension_list[i].extension_id = extension_id
             /\ \A j \in 1..(i - 1) :
                    extension_list[j].extension_id # extension_id
    ELSE 0

\* Variant of make_extension_payment that also posts the payment to the
\* ledger as a PAYMENT transaction; the untouched ledger of C32 must tell it
\* from the code.
make_extension_payment_posted(sim, extension_id, amount, payment_date) ==
    IF extension_index(sim.extensions, extension_id) = 0
    THEN [sim |-> sim, payment |-> NoPayment, raised |-> FALSE]
    ELSE [sim |->
              [add_transaction(sim, "PAYMENT", float_of_cents(amount \div Cent),
                               payment_date, payment_date)
                  EXCEPT
                  !.extensions[extension_index(sim.extensions, extension_id)] =
                      engine_make_payment(@, amount, payment_date).ext],
          payment |->
              engine_make_payment(
                  sim.extensions[extension_index(sim.extensions,
                                                 extension_id)],
                  amount, payment_date).payment,
          raised |->
              engine_make_payment(
                  sim.extensions[extension_index(sim.extensions,
                                                 extension_id)],
                  amount, payment_date).raised]

\* KeepCardSimulator.make_extension_payment: the simulator after the call and
\* what is returned; NoPayment stands for None
make_extension_payment(sim, extension_id, amount, payment_date) ==
    IF extension_index(sim.extensions, extension_id) = 0
    THEN [sim |-> sim, payment |-> NoPayment, raised |-> FALSE]
    ELSE [sim |->
              [sim EXCEPT
                  !.extensions[extension_index(sim.extensions, extension_id)] =
                      engine_make_payment(@, amount, payment_date).ext],
          payment |->
              engine_make_payment(
                  sim.extensions[extension_index(sim.extensions,
                                                 extension_id)],
                  amount, payment_date).payment,
          raised |->
              engine_make_payment(
                  sim.extensions[extension_index(sim.extensions,
                                                 extension_id)],
                  amount, payment_date).raised]

\* ------------------------------------------ calculate_period_balance_due
\* Variant of max_with_zero that does not floor; the balance due of C23 must
\* tell it from the code.
unfloored(x) == x

\* max(0, x)
max_with_zero(x) == IF is_negative(x) \/ x = Zero THEN Zero ELSE x

\* the index of the last statement that starts on or before date, 0 if none
past_stmt(statements, date) ==
    IF \A s \in DOMAIN statements : statements[s].start_date > date THEN 0
    ELSE CHOOSE s \in DOMAIN statements :
             /\ statements[s].start_date <= date
             /\ \A t \in DOMAIN statements :
                    statements[t].start_date <= date => t <= s

\* a row of relevant_txns: a PAYMENT or EXTENSION from start_date to date
is_relevant_txn(txn, start_date, date) ==
    /\ txn.type \in {"PAYMENT", "EXTENSION"}
    /\ txn.effective_date <= date
    /\ txn.effective_date >= start_date

RECURSIVE apply_relevant_txns(_, _, _, _)
\* the loop over relevant_txns in ledger order
apply_relevant_txns(transactions, start_date, date, balance_due) ==
    IF transactions = <<>> THEN balance_due
    ELSE apply_relevant_txns(
             Tail(transactions), start_date, date,
             IF ~is_relevant_txn(Head(transactions), start_date, date)
             THEN balance_due
             ELSE IF Head(transactions).direction = "CREDIT"
             THEN max_with_zero(fsub(balance_due, Head(transactions).amount))
             ELSE fadd(balance_due, Head(transactions).amount))

\* KeepCardSimulator.calculate_period_balance_due
calculate_period_balance_due(sim, date) ==
    IF sim.statements = <<>> THEN Zero
    ELSE IF past_stmt(sim.statements, date) = 0 THEN Zero
    ELSE apply_relevant_txns(
             sim.transactions,
             sim.statements[past_stmt(sim.statements, date)].start_date,
             date,
             sim.statements[past_stmt(sim.statements, date)].balance_due)

\* -------------------------------------------------------------- time_utils
\* time_utils.holidays
time_utils_holidays ==
    {MkDate(2025, 1, 1), MkDate(2025, 4, 18), MkDate(2025, 5, 19),
     MkDate(2025, 7, 1), MkDate(2025, 8, 4), MkDate(2025, 9, 1),
     MkDate(2025, 10, 13), MkDate(2025, 11, 11), MkDate(2025, 12, 25),
     MkDate(2025, 12, 26)}

RECURSIVE add_weekdays(_, _)
\* Variant of add_business_days that skips weekends only; the due dates of
\* C24 and the landed dates of C26 must tell it from the code.
add_weekdays(date, days) ==
    IF days > 0
    THEN add_weekdays(next_day(date),
                      IF weekday(next_day(date)) < 5 THEN days - 1 ELSE days)
    ELSE date

RECURSIVE add_business_days_from(_, _)
\* Variant of add_business_days that counts the day it stands on before it
\* moves on; the landed dates of C26 must tell it from the code.
add_business_days_from(date, days) ==
    IF days > 0
    THEN add_business_days_from(
             next_day(date),
             IF weekday(date) < 5 /\ date \notin time_utils_holidays
             THEN days - 1
             ELSE days)
    ELSE date

RECURSIVE add_business_days(_, _)
\* time_utils.add_business_days
add_business_days(date, days) ==
    IF days > 0
    THEN add_business_days(
             next_day(date),
             IF /\ weekday(next_day(date)) < 5
                /\ next_day(date) \notin time_utils_holidays
             THEN days - 1
             ELSE days)
    ELSE date

\* ------------------------------------------- Statement.get_statement_cycles
\* Variant of invalid_cycle_anchor that lets the 28th through; the anchors of
\* C25 must tell it from the rule.
invalid_cycle_anchor_from_29(start_date) ==
    DayOf(start_date) \in {1, 29, 30, 31}

\* the day of the month of start_date is no cycle anchor: InvalidCycleAnchor
invalid_cycle_anchor(start_date) == DayOf(start_date) \in {1, 28, 29, 30, 31}

\* start + 1 month, for a day every month has
plus_one_month(start) ==
    IF MonthOf(start) = 12 THEN MkDate(YearOf(start) + 1, 1, DayOf(start))
    ELSE MkDate(YearOf(start), MonthOf(start) + 1, DayOf(start))

\* one cycle: start, end = start + 1 month - 1 day, due = end stepped forward
\* by the grace period in business days
statement_cycle(start, grace_period_days) ==
    [start |-> start,
     end |-> prev_day(plus_one_month(start)),
     due |-> add_business_days(prev_day(plus_one_month(start)),
                               grace_period_days)]

RECURSIVE statement_cycles_from(_, _, _, _)
\* the cycles that follow those generated so far, each starting the day after
\* the end of the one before it
statement_cycles_from(start, grace_period_days, cycle_count, cycles) ==
    IF Len(cycles) >= cycle_count THEN cycles
    ELSE statement_cycles_from(
             next_day(statement_cycle(start, grace_period_days).end),
             grace_period_days, cycle_count,
             Append(cycles, statement_cycle(start, grace_period_days)))

\* Statement.get_statement_cycles raises
get_statement_cycles_raises(start_date, grace_period_days, cycle_count) ==
    invalid_cycle_anchor(start_date)

\* Statement.get_statement_cycles
get_statement_cycles(start_date, grace_period_days, cycle_count) ==
    IF get_statement_cycles_raises(start_date, grace_period_days, cycle_count)
    THEN <<>>
    ELSE statement_cycles_from(start_date, grace_period_days, cycle_count,
                               <<>>)

\* ------------------------------------------------------------------ inputs
Amounts == {2, 20, 1000}                  \* extension amounts, in cents
Aprs == {0, DefaultApr}
Terms == 1..MaxTerm
StartDates == {MkDate(2025, 1, 15), MkDate(2025, 1, 31)}
PayDates == {MkDate(2025, 2, 15), MkDate(2025, 3, 20)}
PayAmounts == {1, 400}                    \* payment amounts, in cents
\* the registry of several extensions is explored with these
RegistryAmounts == {20, 1000}
RegistryAprs == {DefaultApr}
\* the terms a caller asks for: inside the range 1..12, at its ends and
\* outside it
RequestedTerms == {-1, 0} \cup Terms \cup {MaxTermMonths, 16, 24}
\* start dates at a month end, before a leap day and before a year end
CreateDates ==
    StartDates \cup {MkDate(2024, 1, 31), MkDate(2025, 11, 30)}
\* the day of the month a statement cycle starts on
DefaultCycleStart == 1
CycleStarts == {DefaultCycleStart, 15}
\* what is posted to the ledger
TransactionTypes ==
    {"PURCHASE", "REFUND", "PAYMENT", "EXTENSION", "PAYMENT_REVERSAL"}
LedgerAmounts == {-10, 0, 10, 70}         \* in cents
\* the floats a caller passes for them
AmountFloat == [cents \in LedgerAmounts |-> float_of_cents(cents)]
LedgerDates == {MkDate(2025, 1, 5), MkDate(2025, 1, 20)}

\* what an extension still owes: remaining principal and interest of all rows
Balance(ext) ==
    LET schedule == ext.payment_schedule
    IN  SumOver(DOMAIN schedule,
                [i \in DOMAIN schedule |->
                     schedule[i].remaining_principal
                     + schedule[i].remaining_interest],
                0)

\* the amounts a payer offers to one extension: a fixed amount, or one of the
\* amounts the extension reports as owed
ExtensionPayments(ext, payment_date) ==
    {a * Cent : a \in PayAmounts}
    \cup {x \in {Balance(ext), get_next_due_amount(ext, payment_date),
                 get_past_due_amount(ext, payment_date)} : x > 0}

\* the amounts a payer offers to the registry
FactoryPayments(exts, payment_date) ==
    {a * Cent : a \in PayAmounts}
    \cup {x \in {factory_get_past_due_amount(exts, payment_date)
                 + factory_get_next_due_amount(exts, payment_date),
                 factory_get_past_due_amount(exts, payment_date)} : x > 0}

\* the months cycles are asked from: a start of a year, months before a
\* holiday and the end of a year
CycleMonths == {<<2025, 1>>, <<2025, 3>>, <<2025, 6>>, <<2025, 12>>}

\* the start dates passed to get_statement_cycles: every day of those months
CycleStartDates ==
    {date \in {MkDate(ym[1], ym[2], d) : ym \in CycleMonths, d \in 1..31} :
         DayOf(date) <= DaysInMonth(YearOf(date), MonthOf(date))}

\* the grace periods, in business days
GracePeriods == {0, 1, 21}

\* the dates passed to add_business_days: every day of a month with one
\* holiday, of one with two and of one with a holiday at its start
BusinessDates ==
    {MkDate(2025, m, d) : m \in {1, 4, 12}, d \in 1..30}
        \cup {MkDate(2025, 1, 31), MkDate(2025, 12, 31)}

\* the card's extensions are explored with these: an amount in cents, a
\* term that raises and two that do not, payments that cover a part of an
\* installment and more than one
CardAmounts == {1000}
CardTerms == {0, 2, 3}
CardPayAmounts == {1, 400, 700}
\* the purchase made before them, in cents, in the statement cycle before
\* theirs
CardPurchases == {70}
CardPurchaseDates == {MkDate(2024, 12, 10)}

\* the numbers of business days stepped
StepDays == {0, 1, 2, 3, 5, 21}

\* ------------------------------------------------------------------- state
VARIABLES
    extensions,   \* ExtensionFactory.extensions
    card,         \* the KeepCardSimulator
    calls,        \* payment calls made so far
    last          \* the last call: its arguments, the registry and the
                  \* simulator before it and what it returned

vars == <<extensions, card, calls, last>>

Call(op, e, payment_date, amount, payments, paid_to, remaining_amount, raised) ==
    [op |-> op, extension |-> e, payment_date |-> payment_date,
     amount |-> amount, before |-> extensions, payments |-> payments,
     paid_to |-> paid_to, remaining_amount |-> remaining_amount,
     raised |-> raised, term_months |-> 0, type |-> "", card |-> card,
     days |-> 0, count |-> 0, result |-> <<>>]

Init ==
    /\ extensions = <<>>
    /\ card = KeepCardSimulator(DefaultCycleStart)
    /\ calls = 0
    /\ last = [op |-> "init", extension |-> 0, payment_date |-> 0, amount |-> 0,
               before |-> <<>>, payments |-> <<>>, paid_to |-> <<>>,
               remaining_amount |-> 0, raised |-> FALSE, term_months |-> 0,
               type |-> "", card |-> KeepCardSimulator(DefaultCycleStart),
               days |-> 0, count |-> 0, result |-> <<>>]

Created(amount, start_date, term_months, apr) ==
    /\ extensions' = create_extension(extensions, amount * Cent, start_date,
                                      term_months, apr)
    /\ last' = [Call("create_extension", Len(extensions) + 1, start_date,
                     amount * Cent, <<>>, <<>>, 0, FALSE)
                    EXCEPT !.term_months = term_months]
    /\ UNCHANGED <<card, calls>>

\* the registry takes another extension
CreateExtension ==
    /\ Len(extensions) < MaxExt
    /\ \E amount \in RegistryAmounts, start_date \in StartDates,
          term_months \in Terms, apr \in RegistryAprs :
           Created(amount, start_date, term_months, apr)

\* the registry takes its only extension
CreateOne ==
    /\ extensions = <<>>
    /\ \E amount \in Amounts, start_date \in StartDates,
          term_months \in Terms, apr \in Aprs :
           Created(amount, start_date, term_months, apr)

\* one call's outcome written to the registry
Paid(op, e, payment_date, amount, made) ==
    /\ extensions' = [extensions EXCEPT ![e] = made.ext]
    /\ last' = Call(op, e, payment_date, amount,
                    IF made.raised THEN <<>> ELSE <<made.payment>>,
                    <<>>, 0, made.raised)
    /\ calls' = calls + 1
    /\ UNCHANGED card

MakePayment ==
    /\ calls < MaxCalls
    /\ \E e \in 1..Len(extensions), payment_date \in PayDates :
           \E amount \in ExtensionPayments(extensions[e], payment_date) :
               Paid("make_payment", e, payment_date, amount,
                    make_payment(extensions[e], amount, payment_date))

PayPastDueAmount ==
    /\ calls < MaxCalls
    /\ \E e \in 1..Len(extensions), payment_date \in PayDates :
           \E amount \in ExtensionPayments(extensions[e], payment_date) :
               Paid("pay_past_due_amount", e, payment_date, amount,
                    pay_past_due_amount(extensions[e], payment_date, amount))

AllocatePayment ==
    /\ calls < MaxCalls
    /\ extensions # <<>>
    /\ \E payment_date \in PayDates :
           \E amount \in FactoryPayments(extensions, payment_date) :
               LET made == make_past_due_next_due_payment(extensions,
                                                          payment_date, amount)
               IN  /\ extensions' = made.extensions
                   /\ last' = Call("allocate_payment", 0, payment_date, amount,
                                   made.payments, made.paid_to,
                                   made.remaining_payment, made.raised)
                   /\ calls' = calls + 1
                   /\ UNCHANGED card

Next ==
    \/ CreateExtension
    \/ MakePayment
    \/ PayPastDueAmount
    \/ AllocatePayment

Spec == Init /\ [][Next]_vars

\* a single extension, of every kind, and the payments made to it
NextExtension ==
    \/ CreateOne
    \/ MakePayment
    \/ PayPastDueAmount
    \/ AllocatePayment

SpecExtension == Init /\ [][NextExtension]_vars

\* a caller constructs an extension of the registry with any requested term
Construct ==
    /\ extensions = <<>>
    /\ card.transactions = <<>>
    /\ \E amount \in Amounts, start_date \in CreateDates,
          term_months \in RequestedTerms, apr \in Aprs :
           Created(amount, start_date, term_months, apr)

\* the simulator creates a statement extension with any requested term
CreateStatementExtension ==
    /\ extensions = <<>>
    /\ card.transactions = <<>>
    /\ \E amount \in Amounts, effective_date \in CreateDates,
          term_months \in RequestedTerms, apr \in Aprs :
           /\ card' = create_statement_extension(card, amount, effective_date,
                                                 term_months, apr)
           /\ last' = [Call("create_statement_extension",
                            Len(card.extensions) + 1, effective_date,
                            amount * Cent, <<>>, <<>>, 0,
                            create_statement_extension_raises(
                                card, amount, effective_date, term_months,
                                apr))
                           EXCEPT !.term_months = term_months]
           /\ UNCHANGED <<extensions, calls>>

\* extensions of both implementations, as they are created
NextCreate ==
    \/ Construct
    \/ CreateStatementExtension

SpecCreate == Init /\ [][NextCreate]_vars

\* a simulator is made with another statement cycle day
NewSimulator ==
    /\ last.op = "init"
    /\ \E statement_cycle_start \in CycleStarts \ {DefaultCycleStart} :
           /\ card' = KeepCardSimulator(statement_cycle_start)
           /\ last' = Call("KeepCardSimulator", 0, 0, 0, <<>>, <<>>, 0, FALSE)
    /\ UNCHANGED <<extensions, calls>>

\* a transaction is posted to the ledger
AddTransaction ==
    /\ Len(card.transactions) < MaxTx
    /\ \E transaction_type \in TransactionTypes, amount \in LedgerAmounts,
          effective_date \in LedgerDates :
           /\ card' = add_transaction(card, transaction_type,
                                      AmountFloat[amount], effective_date,
                                      effective_date)
           /\ last' = [Call("add_transaction", 0, effective_date,
                            amount * Cent, <<>>, <<>>, 0,
                            add_transaction_raises(card, transaction_type,
                                                   AmountFloat[amount],
                                                   effective_date,
                                                   effective_date))
                           EXCEPT !.type = transaction_type]
    /\ UNCHANGED <<extensions, calls>>

\* the ledger of the simulator and its statements
NextLedger ==
    \/ NewSimulator
    \/ AddTransaction

SpecLedger == Init /\ [][NextLedger]_vars

\* the simulator creates a statement extension on a card that may hold others
CreateOnCard ==
    /\ Len(card.extensions) < MaxExt
    /\ Len(card.transactions) < MaxTx
    /\ \E amount \in CardAmounts, effective_date \in StartDates,
          term_months \in CardTerms, apr \in RegistryAprs :
           /\ card' = create_statement_extension(card, amount, effective_date,
                                                 term_months, apr)
           /\ last' = [Call("create_statement_extension",
                            Len(card.extensions) + 1, effective_date,
                            amount * Cent, <<>>, <<>>, 0,
                            create_statement_extension_raises(
                                card, amount, effective_date, term_months,
                                apr))
                           EXCEPT !.term_months = term_months]
    /\ UNCHANGED <<extensions, calls>>

\* a payment is made toward an extension of the card, by its id
MakeExtensionPayment ==
    /\ calls < MaxCalls
    /\ \E extension_id \in 1..(MaxExt + 1), amount \in CardPayAmounts,
          payment_date \in PayDates :
           /\ card' = make_extension_payment(card, extension_id,
                                             amount * Cent, payment_date).sim
           /\ last' = [Call("make_extension_payment", extension_id,
                            payment_date, amount * Cent, <<>>, <<>>, 0,
                            make_extension_payment(
                                card, extension_id, amount * Cent,
                                payment_date).raised)
                           EXCEPT !.result =
                               <<make_extension_payment(
                                     card, extension_id, amount * Cent,
                                     payment_date).payment>>]
    /\ calls' = calls + 1
    /\ UNCHANGED extensions

\* a purchase is made with the card before any extension is created, so that
\* the ledger the extensions are paid beside has a balance due
PurchaseOnCard ==
    /\ card.transactions = <<>>
    /\ card.extensions = <<>>
    /\ \E amount \in CardPurchases, effective_date \in CardPurchaseDates :
           /\ card' = add_transaction(card, "PURCHASE", AmountFloat[amount],
                                      effective_date, effective_date)
           /\ last' = [Call("add_transaction", 0, effective_date,
                            amount * Cent, <<>>, <<>>, 0, FALSE)
                           EXCEPT !.type = "PURCHASE"]
    /\ UNCHANGED <<extensions, calls>>

NextCard ==
    \/ PurchaseOnCard
    \/ CreateOnCard
    \/ MakeExtensionPayment

SpecCard == Init /\ [][NextCard]_vars

\* a caller asks for the statement cycles from a start date
GetStatementCycles ==
    /\ last.op = "init"
    /\ \E start_date \in CycleStartDates, grace_period_days \in GracePeriods,
          cycle_count \in 0..MaxCycles :
           last' = [Call("get_statement_cycles", 0, start_date, 0, <<>>, <<>>,
                         0,
                         get_statement_cycles_raises(
                             start_date, grace_period_days, cycle_count))
                        EXCEPT !.days = grace_period_days,
                               !.count = cycle_count,
                               !.result = get_statement_cycles(
                                              start_date, grace_period_days,
                                              cycle_count)]
    /\ UNCHANGED <<extensions, card, calls>>

\* a caller steps a date forward by business days
AddBusinessDays ==
    /\ last.op = "init"
    /\ \E date \in BusinessDates, days \in StepDays :
           last' = [Call("add_business_days", 0, date, 0, <<>>, <<>>, 0, FALSE)
                        EXCEPT !.days = days,
                               !.result = <<add_business_days(date, days)>>]
    /\ UNCHANGED <<extensions, card, calls>>

NextCycles ==
    \/ GetStatementCycles
    \/ AddBusinessDays

SpecCycles == Init /\ [][NextCycles]_vars

\* ------------------------------------------------------------------ claims
RECURSIVE SumPaid(_)
\* principal_paid + interest_paid over a list of payment records
SumPaid(payments) ==
    IF payments = <<>> THEN 0
    ELSE Head(payments).principal_paid + Head(payments).interest_paid
         + SumPaid(Tail(payments))

Allocated == last.op = "allocate_payment" /\ ~last.raised

\* C1: for every allocate_payment call, what its payments report as applied
\* (principal_paid + interest_paid, summed) plus the returned remainder is the
\* input amount, exactly.
C1_AllocationConserves ==
    Allocated => SumPaid(last.payments) + last.remaining_amount = last.amount

\* the installments allocate_payment has to pay at payment_date: of each ACTIVE
\* extension, the unpaid rows due before payment_date and the earliest row
\* due on or after it
IsCandidate(exts, e, k, payment_date) ==
    LET schedule == exts[e].payment_schedule
        r == schedule[k]
    IN  /\ exts[e].status = "ACTIVE"
        /\ \/ r.payment_date < payment_date /\ ~r.paid
           \/ /\ r.payment_date >= payment_date
              /\ \A j \in DOMAIN schedule :
                     schedule[j].payment_date >= payment_date
                         => schedule[j].payment_date >= r.payment_date

Candidates(exts, payment_date) ==
    {c \in UNION {{<<e, k>> : k \in DOMAIN exts[e].payment_schedule} :
                      e \in DOMAIN exts} :
         IsCandidate(exts, c[1], c[2], payment_date)}

Row(exts, c) == exts[c[1]].payment_schedule[c[2]]

\* c comes before d in the order of payment: the earlier due date, and on
\* equal due dates the extension registered earlier
Precedes(exts, c, d) ==
    \/ Row(exts, c).payment_date < Row(exts, d).payment_date
    \/ /\ Row(exts, c).payment_date = Row(exts, d).payment_date
       /\ c[1] < d[1]

\* the last call took money off row c
Reduced(c) ==
    \/ Row(extensions, c).remaining_principal < Row(last.before, c).remaining_principal
    \/ Row(extensions, c).remaining_interest < Row(last.before, c).remaining_interest

\* C2: allocate_payment pays in ascending due-date order, the extension
\* registered earlier first on equal dates: a candidate is reduced only when
\* every candidate before it in this order has nothing left of its
\* remaining_amount.
C2_AllocationOrder ==
    Allocated =>
        \A c, d \in Candidates(last.before, last.payment_date) :
            (Precedes(last.before, c, d) /\ Reduced(d))
                => Row(extensions, c).remaining_amount <= 0

\* an allocation over two extensions with installments due the same day, which
\* paid off the first extension's installment and part of the second's
C2_Witness ==
    /\ Allocated
    /\ \E c, d \in Candidates(last.before, last.payment_date) :
           /\ c[1] < d[1]
           /\ Row(last.before, c).payment_date = Row(last.before, d).payment_date
           /\ Row(last.before, c).remaining_amount > 0
           /\ Row(extensions, c).remaining_amount = 0
           /\ Reduced(d)
           /\ Row(extensions, d).remaining_amount > 0

\* what the registry reports as due at the last call's date, before the call
DueBefore ==
    factory_get_past_due_amount(last.before, last.payment_date)
    + factory_get_next_due_amount(last.before, last.payment_date)

AllRows(exts) ==
    UNION {{<<e, k>> : k \in DOMAIN exts[e].payment_schedule} : e \in DOMAIN exts}

\* C3: allocate_payment pays only the past-due installments and the next
\* installment of each ACTIVE extension.  Given at least what the registry
\* reports as past due and next due, it leaves both aggregates at 0 and
\* returns the rest; given less, it returns a remainder of 0.  No other
\* installment changes.
C3_AllocationCoversDue ==
    Allocated =>
        /\ IF last.amount >= DueBefore
           THEN /\ factory_get_past_due_amount(extensions, last.payment_date) = 0
                /\ factory_get_next_due_amount(extensions, last.payment_date) = 0
                /\ last.remaining_amount = last.amount - DueBefore
           ELSE last.remaining_amount = 0
        /\ \A c \in AllRows(last.before) \ Candidates(last.before, last.payment_date) :
               Row(extensions, c) = Row(last.before, c)

\* an allocation of more than is due over two extensions, one of them with an
\* installment past due and a later installment that is left alone
C3_Witness ==
    /\ Allocated
    /\ Len(last.before) = 2
    /\ DueBefore > 0
    /\ last.amount > DueBefore
    /\ last.remaining_amount > 0
    /\ factory_get_past_due_amount(last.before, last.payment_date) > 0
    /\ \E c \in AllRows(last.before) \ Candidates(last.before, last.payment_date) :
           ~Row(last.before, c).paid

\* the last call was a payment to one extension (make_payment, directly or
\* through pay_past_due_amount)
PaidOne == last.op \in {"make_payment", "pay_past_due_amount"}

Before == last.before[last.extension]
After == extensions[last.extension]

\* row i was unpaid and past due when the last call was made
WasPastDue(i) ==
    /\ Before.payment_schedule[i].payment_date < last.payment_date
    /\ ~Before.payment_schedule[i].paid

Cleared(row) == row.remaining_principal <= 0 /\ row.remaining_interest <= 0

\* C4: make_payment pays the past-due installments first, oldest first: a row
\* due on or after the payment date, or a later past-due row, is reduced only
\* when every (earlier) past-due row is cleared.
C4_PastDueFirst ==
    PaidOne =>
        \A i, j \in DOMAIN Before.payment_schedule :
            LET due_i == Before.payment_schedule[i].payment_date
                due_j == Before.payment_schedule[j].payment_date
            IN  (/\ WasPastDue(i)
                 /\ Reduced(<<last.extension, j>>)
                 /\ \/ due_j >= last.payment_date
                    \/ WasPastDue(j) /\ due_j > due_i)
                    => Cleared(After.payment_schedule[i])

\* a payment that cleared one past-due row, part of a second one, and left
\* the row due later untouched
C4_Witness ==
    /\ last.op = "make_payment"
    /\ \E i, j, k \in DOMAIN Before.payment_schedule :
           /\ WasPastDue(i) /\ WasPastDue(j) /\ i < j
           /\ ~Cleared(Before.payment_schedule[i])
           /\ Cleared(After.payment_schedule[i])
           /\ Reduced(<<last.extension, j>>)
           /\ ~Cleared(After.payment_schedule[j])
           /\ Before.payment_schedule[k].payment_date >= last.payment_date
           /\ After.payment_schedule[k] = Before.payment_schedule[k]

\* what the rows past due at the last call owed together
OwedPastDue ==
    LET schedule == Before.payment_schedule
        S == {i \in DOMAIN schedule : WasPastDue(i)}
    IN  SumOver(S, [i \in S |-> schedule[i].remaining_principal
                                + schedule[i].remaining_interest], 0)

\* the unpaid rows due on or after the last call's date, before the call
UnpaidAhead ==
    {k \in DOMAIN Before.payment_schedule :
         /\ Before.payment_schedule[k].payment_date >= last.payment_date
         /\ ~Before.payment_schedule[k].paid}

\* C5: the money make_payment has left after the past-due rows goes to the
\* earliest unpaid row due on or after the payment date, principal first and
\* then interest, also when an earlier such row was paid in advance.
C5_NextUnpaidTakesTheRest ==
    (last.op = "make_payment" /\ ~last.raised /\ UnpaidAhead # {}
     /\ last.amount > OwedPastDue) =>
        LET k == CHOOSE i \in UnpaidAhead : \A j \in UnpaidAhead : i <= j
            was == Before.payment_schedule[k]
            now == After.payment_schedule[k]
            left == last.amount - OwedPastDue
            principal == Min(left, was.remaining_principal)
        IN  /\ now.remaining_principal
                   = Quantize(was.remaining_principal - principal)
            /\ now.remaining_interest
                   = IF left > principal
                     THEN Quantize(was.remaining_interest
                                   - Min(left - principal, was.remaining_interest))
                     ELSE was.remaining_interest

AllCleared(ext) ==
    \A i \in DOMAIN ext.payment_schedule : Cleared(ext.payment_schedule[i])

\* C6: after any payments an extension is PAID exactly when every one of its
\* installments has remaining_principal <= 0 and remaining_interest <= 0.
C6_PaidIffCleared ==
    \A e \in DOMAIN extensions :
        (Len(extensions[e].payments) > 0) =>
            ((extensions[e].status = "PAID") <=> AllCleared(extensions[e]))

\* C7: a payment of the whole remaining balance of an ACTIVE extension leaves
\* it PAID with current_balance 0.
C7_FullBalancePays ==
    (/\ last.op = "make_payment"
     /\ Before.status = "ACTIVE"
     /\ last.amount = Balance(Before)) =>
        /\ ~last.raised
        /\ After.status = "PAID"
        /\ After.current_balance = 0

\* the installment a next-due payment is aimed at, in the state before the call
NextBefore == get_next_installment(Before, last.payment_date)

DueToday ==
    /\ last.op = "make_payment"
    /\ get_past_due_installments(Before, last.payment_date) = <<>>
    /\ NextBefore.payment_number # 0
    /\ NextBefore.payment_date = last.payment_date
    /\ ~NextBefore.paid
    /\ last.amount = NextBefore.remaining_amount

\* C8: paying exactly the remaining_amount of the next installment on its due
\* date, nothing being past due, marks that installment paid and no other, and
\* the extension stays ACTIVE while any installment is not cleared.
C8_NextDueOnDueDate ==
    DueToday =>
        /\ ~last.raised
        /\ \A i \in DOMAIN After.payment_schedule :
               After.payment_schedule[i].paid
                   = (Before.payment_schedule[i].paid
                      \/ i = NextBefore.payment_number)
        /\ (~AllCleared(After)) => After.status = "ACTIVE"

\* C9: no installment of any extension ever has remaining_principal,
\* remaining_interest or remaining_amount below 0.
C9_NothingBelowZero ==
    \A e \in DOMAIN extensions :
        \A i \in DOMAIN extensions[e].payment_schedule :
            LET row == extensions[e].payment_schedule[i]
            IN  /\ row.remaining_principal >= 0
                /\ row.remaining_interest >= 0
                /\ row.remaining_amount >= 0

InterestOver(original_amount, apr, term_months) ==
    ((original_amount \div 100) * apr * term_months) \div 12

\* the monthly payment the stored fields of an extension give
PaymentOver(ext) ==
    (ext.original_amount
     + InterestOver(ext.original_amount, ext.apr, ext.term_months))
    \div ext.term_months

\* C11: on creation an extension's total_interest is original_amount x
\* (apr/100) x (term_months/12) and its monthly_payment is (original_amount +
\* total_interest) / term_months, term_months being the stored, clamped term;
\* this for the extensions of the registry and for those of the simulator.
C11_InterestAndMonthlyPayment ==
    /\ last.op = "create_extension" =>
           \A e \in DOMAIN extensions :
               /\ extensions[e].total_interest =
                      InterestOver(extensions[e].original_amount,
                                   extensions[e].apr,
                                   extensions[e].term_months)
               /\ extensions[e].monthly_payment = PaymentOver(extensions[e])
    /\ last.op = "create_statement_extension" =>
           \A e \in DOMAIN card.extensions :
               card.extensions[e].monthly_payment
                   = PaymentOver(card.extensions[e])

\* C11 for the extensions of the registry alone
C11_RegistryInterest ==
    last.op = "create_extension" =>
        \A e \in DOMAIN extensions :
            /\ extensions[e].total_interest =
                   InterestOver(extensions[e].original_amount,
                                extensions[e].apr, extensions[e].term_months)
            /\ extensions[e].monthly_payment = PaymentOver(extensions[e])

\* C11 for the simulator's extensions whose requested term is in 1..12
C11_EngineInRange ==
    (last.op = "create_statement_extension"
     /\ last.term_months \in MinTermMonths..MaxTermMonths) =>
        \A e \in DOMAIN card.extensions :
            card.extensions[e].monthly_payment = PaymentOver(card.extensions[e])

\* the example of C11: 1000.00 over 3 months at 36% has total_interest 90.00
\* and a monthly_payment of 363.33 and a third of a cent
C11_Example ==
    \E e \in DOMAIN extensions :
        /\ extensions[e].original_amount = 1000 * Cent
        /\ extensions[e].term_months = 3
        /\ extensions[e].apr = DefaultApr
        /\ extensions[e].total_interest = 90 * Cent
        /\ 3 * extensions[e].monthly_payment = 1090 * Cent

\* months since year 0 of the month of a date
MonthIndex(date) == (YearOf(date) * 12) + MonthOf(date) - 1

\* due is k calendar months after start_date, on start_date's day of the month
\* or on the last day of the month when the month is shorter
MonthsAfter(due, start_date, k) ==
    /\ MonthIndex(due) = MonthIndex(start_date) + k
    /\ DayOf(due) = Min(DayOf(start_date),
                        DaysInMonth(YearOf(due), MonthOf(due)))

\* the extension is what a request for requested_term months has to create
ScheduleAsRequested(ext, requested_term) ==
    /\ ext.term_months =
           Min(Max(MinTermMonths, requested_term), MaxTermMonths)
    /\ Len(ext.payment_schedule) = ext.term_months
    /\ \A k \in DOMAIN ext.payment_schedule :
           /\ ext.payment_schedule[k].payment_number = k
           /\ MonthsAfter(ext.payment_schedule[k].payment_date,
                          ext.start_date, k)
           /\ k > 1 => ext.payment_schedule[k - 1].payment_date
                           < ext.payment_schedule[k].payment_date

\* C12: for any requested term, also below 1 or above 12, the created
\* extension stores the term clamped to [1,12] and its schedule has exactly
\* that many installments, numbered 1..n, installment k due k calendar months
\* after start_date with the day clamped to the month's last day, the due
\* dates strictly increasing; this for the extensions of the registry and for
\* those of the simulator.
C12_ClampedSchedule ==
    /\ last.op = "create_extension" =>
           /\ Len(extensions) = Len(last.before) + 1
           /\ ScheduleAsRequested(extensions[last.extension],
                                  last.term_months)
    /\ last.op = "create_statement_extension" =>
           /\ Len(card.extensions) = Len(last.card.extensions) + 1
           /\ ScheduleAsRequested(card.extensions[last.extension],
                                  last.term_months)

\* C12 for the extensions of the registry alone
C12_RegistrySchedule ==
    last.op = "create_extension" =>
        /\ Len(extensions) = Len(last.before) + 1
        /\ ScheduleAsRequested(extensions[last.extension], last.term_months)

\* C12 for the simulator's extensions whose requested term is in 1..12
C12_EngineInRange ==
    (last.op = "create_statement_extension"
     /\ last.term_months \in MinTermMonths..MaxTermMonths) =>
        /\ Len(card.extensions) = Len(last.card.extensions) + 1
        /\ ScheduleAsRequested(card.extensions[last.extension],
                               last.term_months)

\* a registry extension requested for more than 12 months, started on the 31st
C12_RegistryClamped ==
    /\ last.op = "create_extension"
    /\ last.term_months > MaxTermMonths
    /\ DayOf(last.payment_date) = 31
    /\ Len(extensions[last.extension].payment_schedule) = MaxTermMonths

\* the dates an extension is asked about: the payment dates and the due dates
\* of its installments
QueryDates(ext) ==
    PayDates \cup {ext.payment_schedule[k].payment_date :
                       k \in DOMAIN ext.payment_schedule}

\* the unpaid installments of an extension due strictly before date
UnpaidBefore(ext, date) ==
    {k \in DOMAIN ext.payment_schedule :
         /\ ~ext.payment_schedule[k].paid
         /\ ext.payment_schedule[k].payment_date < date}

\* the numbers of the installments get_past_due_installments reports
ReportedPastDue(ext, date) ==
    {get_past_due_installments(ext, date)[i].payment_number :
         i \in DOMAIN get_past_due_installments(ext, date)}

\* C13 for one extension and one date
PastDueStrictlyBefore(ext, date) ==
    /\ get_past_due_amount(ext, date) =
           SumOver(UnpaidBefore(ext, date),
                   [k \in DOMAIN ext.payment_schedule |->
                        ext.payment_schedule[k].remaining_amount],
                   0)
    /\ ReportedPastDue(ext, date) = UnpaidBefore(ext, date)
    /\ UnpaidBefore(ext, date) = {} => get_past_due_amount(ext, date) = 0
    /\ get_next_installment(ext, date).payment_number
           \notin ReportedPastDue(ext, date)
    /\ \A k \in DOMAIN ext.payment_schedule :
           ext.payment_schedule[k].payment_date = date =>
               /\ k \notin ReportedPastDue(ext, date)
               /\ get_next_installment(ext, date).payment_number = k

\* C13: past_due_amount(date) is the sum of remaining_amount over the unpaid
\* installments due strictly before date; an installment asked about on its
\* own due date is not past due but the one the next-due query reports, and
\* no installment is counted by both queries for one date.
C13_PastDueStrictlyBefore ==
    \A e \in DOMAIN extensions :
        \A date \in QueryDates(extensions[e]) :
            PastDueStrictlyBefore(extensions[e], date)

\* after a payment, an extension with an unpaid installment due on a date, a
\* partly paid installment past due on that date and a paid one before it
C13_Witness ==
    /\ PaidOne
    /\ \E k \in DOMAIN After.payment_schedule :
           /\ ~After.payment_schedule[k].paid
           /\ get_past_due_amount(After, After.payment_schedule[k].payment_date)
                  > 0
           /\ \E j \in 1..(k - 1) :
                  /\ ~After.payment_schedule[j].paid
                  /\ After.payment_schedule[j].remaining_amount
                         < Before.payment_schedule[j].remaining_amount

\* the installments of an extension due on or after date
DueFrom(ext, date) ==
    {k \in DOMAIN ext.payment_schedule :
         ext.payment_schedule[k].payment_date >= date}

\* the earliest of them
EarliestFrom(ext, date) ==
    CHOOSE k \in DueFrom(ext, date) :
        \A j \in DueFrom(ext, date) :
            ext.payment_schedule[k].payment_date
                <= ext.payment_schedule[j].payment_date

\* C14 for one extension and one date
NextDueFrom(ext, date) ==
    IF DueFrom(ext, date) = {}
    THEN /\ get_next_installment(ext, date) = NoInstallment
         /\ get_next_due_amount(ext, date) = 0
    ELSE /\ get_next_installment(ext, date)
                = ext.payment_schedule[EarliestFrom(ext, date)]
         /\ get_next_due_amount(ext, date) =
                IF ext.payment_schedule[EarliestFrom(ext, date)].paid THEN 0
                ELSE ext.payment_schedule[EarliestFrom(ext, date)]
                         .remaining_amount

\* C14: next_due_amount(date) is the remaining_amount of the earliest
\* installment due on or after date, 0 when that installment is already paid,
\* and 0 when no installment is due on or after date, the lookup of the next
\* installment then giving its explicit none value.
C14_NextDueAmount ==
    \A e \in DOMAIN extensions :
        \A date \in QueryDates(extensions[e]) :
            NextDueFrom(extensions[e], date)

\* after a payment, an ACTIVE extension whose installment due on or after
\* the payment date is paid with something left of it, a later one unpaid, and
\* a payment date after its last installment
C14_Witness ==
    /\ PaidOne
    /\ After.status = "ACTIVE"
    /\ DueFrom(After, last.payment_date) # {}
    /\ After.payment_schedule[EarliestFrom(After, last.payment_date)].paid
    /\ get_next_due_amount(After, last.payment_date) = 0
    /\ \E date \in PayDates :
           /\ DueFrom(After, date) = {}
           /\ get_next_installment(After, date) = NoInstallment

RECURSIVE SumActivePastDue(_, _)
\* past_due_amount(date) summed over the ACTIVE ones of a list of extensions
SumActivePastDue(exts, date) ==
    IF exts = <<>> THEN 0
    ELSE (IF Head(exts).status = "ACTIVE"
          THEN get_past_due_amount(Head(exts), date) ELSE 0)
         + SumActivePastDue(Tail(exts), date)

RECURSIVE SumActiveNextDue(_, _)
\* next_due_amount(date) summed over the ACTIVE ones of a list of extensions
SumActiveNextDue(exts, date) ==
    IF exts = <<>> THEN 0
    ELSE (IF Head(exts).status = "ACTIVE"
          THEN get_next_due_amount(Head(exts), date) ELSE 0)
         + SumActiveNextDue(Tail(exts), date)

\* the dates the registry is asked about: the payment dates and the due dates
\* of the installments of its extensions
RegistryDates ==
    PayDates \cup UNION {QueryDates(extensions[e]) : e \in DOMAIN extensions}

\* C15: at any date the registry's aggregate past-due amount is the sum of
\* past_due_amount(date) over its ACTIVE extensions and its aggregate next-due
\* amount the sum of next_due_amount(date) over them; PAID extensions add
\* nothing.
C15_AggregatesOverActive ==
    \A date \in RegistryDates :
        /\ factory_get_past_due_amount(extensions, date)
               = SumActivePastDue(extensions, date)
        /\ factory_get_next_due_amount(extensions, date)
               = SumActiveNextDue(extensions, date)

\* after a payment, a registry of a PAID extension and an ACTIVE one, with both
\* aggregates above 0 at a date
C15_Witness ==
    /\ last.op \in {"make_payment", "pay_past_due_amount", "allocate_payment"}
    /\ \E e \in DOMAIN extensions : extensions[e].status = "PAID"
    /\ \E e \in DOMAIN extensions : extensions[e].status = "ACTIVE"
    /\ \E date \in RegistryDates :
           /\ factory_get_past_due_amount(extensions, date) > 0
           /\ factory_get_next_due_amount(extensions, date) > 0

\* the place of a kind in the order within one date, 0 for the kinds the
\* order does not name
KindOrder(kind) ==
    IF kind = "EXTENSION" THEN 1
    ELSE IF kind = "PAYMENT" THEN 2
    ELSE IF kind = "PURCHASE" THEN 3
    ELSE 0

\* row i of the ledger may stand before row j
InLedgerOrder(rows, i, j) ==
    \/ rows[i].effective_date < rows[j].effective_date
    \/ /\ rows[i].effective_date = rows[j].effective_date
       /\ \/ KindOrder(rows[i].type) = 0
          \/ KindOrder(rows[j].type) = 0
          \/ KindOrder(rows[i].type) <= KindOrder(rows[j].type)

\* the running balance of row i follows from the row before it
RunningBalance(rows, i) ==
    rows[i].balance =
        IF rows[i].direction = "DEBIT"
        THEN fadd(IF i = 1 THEN Zero ELSE rows[i - 1].balance, rows[i].amount)
        ELSE fsub(IF i = 1 THEN Zero ELSE rows[i - 1].balance, rows[i].amount)

\* PAYMENT, REFUND and EXTENSION are CREDIT, every other kind is DEBIT
DirectionOfKind(row) ==
    row.direction =
        IF row.type \in {"PAYMENT", "REFUND", "EXTENSION"} THEN "CREDIT"
        ELSE "DEBIT"

Appended == last.op = "add_transaction" /\ ~last.raised

\* C16: after every append the ledger rows are in ascending effective_date
\* order and, within one date, EXTENSION before PAYMENT before PURCHASE; each
\* row's running balance is the previous row's (0 before the first) plus its
\* amount when DEBIT, minus its amount when CREDIT; PAYMENT, REFUND and
\* EXTENSION are CREDIT and every other kind is DEBIT.
C16_LedgerOrderAndBalance ==
    Appended =>
        /\ Len(card.transactions) = Len(last.card.transactions) + 1
        /\ \A i, j \in DOMAIN card.transactions :
               i < j => InLedgerOrder(card.transactions, i, j)
        /\ \A i \in DOMAIN card.transactions :
               /\ RunningBalance(card.transactions, i)
               /\ DirectionOfKind(card.transactions[i])

\* an EXTENSION posted after a PURCHASE of the same date stands before it,
\* and the balance of the PURCHASE row has changed
C16_Witness ==
    /\ Appended
    /\ last.type = "EXTENSION"
    /\ last.amount > 0
    /\ Len(card.transactions) = 2
    /\ last.card.transactions[1].type = "PURCHASE"
    /\ card.transactions[1].type = "EXTENSION"
    /\ card.transactions[2].type = "PURCHASE"
    /\ card.transactions[1].effective_date = card.transactions[2].effective_date
    /\ card.transactions[2].balance # last.card.transactions[1].balance

RECURSIVE Replay(_, _)
\* the ledger after the rows are appended to it one by one, first row first
Replay(ledger, rows) ==
    IF rows = <<>> THEN ledger
    ELSE Replay(appended(ledger, Head(rows).type, Head(rows).amount,
                         Head(rows).effective_date, Head(rows).created_at),
                Tail(rows))

\* the orders in which n transactions can be appended
InsertionOrders(n) ==
    {order \in [1..n -> 1..n] : \A i, j \in 1..n : i # j => order[i] # order[j]}

\* the rows of the ledger appended to an empty ledger in the given order
ReplayedIn(order) ==
    Replay(<<>>, [i \in DOMAIN order |-> card.transactions[order[i]]])

\* C17: the transactions of a ledger, appended to an empty ledger in any
\* order, give the same sorted sequence (kind, amount and effective_date at
\* every position), the same running balance at every position and the same
\* final balance; recomputing the balances without a new append changes
\* nothing.
C17_InsertionOrderIndependent ==
    Appended =>
        /\ \A order \in InsertionOrders(Len(card.transactions)) :
               ReplayedIn(order) = card.transactions
        /\ recalculate_balance(card.transactions) = card.transactions

\* C17 for the recomputation alone
C17_Recompute ==
    Appended => recalculate_balance(card.transactions) = card.transactions

\* C17 for the final balance alone, of ledgers of at most two rows
C17_FinalBalanceUpToTwo ==
    (Appended /\ Len(card.transactions) \in 1..2) =>
        \A order \in InsertionOrders(Len(card.transactions)) :
            /\ Len(ReplayedIn(order)) = Len(card.transactions)
            /\ ReplayedIn(order)[Len(card.transactions)].balance
                   = card.transactions[Len(card.transactions)].balance

\* C17 for the final balance alone
C17_FinalBalance ==
    (Appended /\ card.transactions # <<>>) =>
        \A order \in InsertionOrders(Len(card.transactions)) :
            /\ Len(ReplayedIn(order)) = Len(card.transactions)
            /\ ReplayedIn(order)[Len(card.transactions)].balance
                   = card.transactions[Len(card.transactions)].balance

\* C17 for ledgers in which no two rows have the same date and the same place
\* in the order of kinds
C17_WithoutTies ==
    (Appended
     /\ \A i, j \in DOMAIN card.transactions :
            i # j => \/ card.transactions[i].effective_date
                           # card.transactions[j].effective_date
                     \/ type_code(card.transactions[i].type)
                           # type_code(card.transactions[j].type)) =>
        \A order \in InsertionOrders(Len(card.transactions)) :
            ReplayedIn(order) = card.transactions

\* C18: an append with an amount that is zero or negative fails and leaves
\* the ledger rows, every running balance and the statements as they were
\* before the call.
C18_InvalidAmountRejected ==
    (last.op = "add_transaction" /\ last.amount <= 0) =>
        /\ last.raised
        /\ card.transactions = last.card.transactions
        /\ card.statements = last.card.statements

\* the closed statements: those with an ending balance
Closed == {s \in DOMAIN card.statements :
               card.statements[s].ending_balance # None}

\* the ledger rows of a kind with effective_date in the range of statement s
RowsIn(s, kind) ==
    {i \in DOMAIN card.transactions :
         /\ card.transactions[i].type = kind
         /\ card.transactions[i].effective_date
                >= card.statements[s].start_date
         /\ card.transactions[i].effective_date <= card.statements[s].end_date}

RECURSIVE FloatSum(_, _)
\* the amounts of the ledger rows S added to total in the order of the ledger
FloatSum(S, total) ==
    IF S = {} THEN total
    ELSE LET i == CHOOSE j \in S : \A k \in S : j <= k
         IN  FloatSum(S \ {i}, fadd(total, card.transactions[i].amount))

\* the sum of their amounts
LedgerAmount(s, kind) == FloatSum(RowsIn(s, kind), Zero)

\* the statement equation and the aggregates of closed statement s
StatementEquation(s) ==
    /\ card.statements[s].purchases_amount = Some(LedgerAmount(s, "PURCHASE"))
    /\ card.statements[s].refunds_amount = Some(LedgerAmount(s, "REFUND"))
    /\ card.statements[s].payments_amount = Some(LedgerAmount(s, "PAYMENT"))
    /\ card.statements[s].extensions_amount
           = Some(LedgerAmount(s, "EXTENSION"))
    /\ card.statements[s].ending_balance =
           Some(fsub(fsub(fsub(fadd(card.statements[s].beginning_balance,
                                    LedgerAmount(s, "PURCHASE")),
                               LedgerAmount(s, "REFUND")),
                          LedgerAmount(s, "PAYMENT")),
                     LedgerAmount(s, "EXTENSION")))

\* the beginning balance of statement s: the ending balance of the one before
\* it, 0 for the first when no transaction precedes it
BeginningChained(s) ==
    IF s > 1
    THEN Some(card.statements[s].beginning_balance)
             = card.statements[s - 1].ending_balance
    ELSE (\A i \in DOMAIN card.transactions :
              card.transactions[i].effective_date
                  >= card.statements[s].start_date)
         => card.statements[s].beginning_balance = Zero

\* C19: after every append every closed statement has ending_balance =
\* beginning_balance + purchases - refunds - payments - extensions, the four
\* aggregates being the sums of the ledger amounts of that kind with
\* effective_date in [start_date, end_date], and every statement begins with
\* the ending balance of the one before it (0 for the first when no
\* transaction precedes it).
C19_StatementEquation ==
    Appended =>
        /\ \A s \in Closed : StatementEquation(s)
        /\ \A s \in DOMAIN card.statements : BeginningChained(s)

\* after an append, a closed statement that begins with a balance other than
\* 0, holds a transaction and ends with another balance
C19_Witness ==
    /\ Appended
    /\ \E s \in Closed :
           /\ s > 1
           /\ card.statements[s].beginning_balance # Zero
           /\ card.statements[s].transactions # <<>>
           /\ card.statements[s].ending_balance
                  # Some(card.statements[s].beginning_balance)
           /\ card.statements[s - 1].transactions # <<>>

\* every ledger row is of one of the four kinds the statements aggregate
StatementKindsOnly ==
    \A i \in DOMAIN card.transactions :
        card.transactions[i].type
            \in {"PURCHASE", "REFUND", "PAYMENT", "EXTENSION"}

\* the closed statements whose [start_date, end_date] holds ledger row i
ClosedHolding(i) ==
    {s \in Closed :
         /\ card.statements[s].start_date
                <= card.transactions[i].effective_date
         /\ card.transactions[i].effective_date <= card.statements[s].end_date}

\* the last closed statement
LastClosed == CHOOSE s \in Closed : \A t \in Closed : t <= s

\* the ledger's final running balance
FinalBalance == card.transactions[Len(card.transactions)].balance

\* C20: after any sequence of appends of kinds PURCHASE, REFUND, PAYMENT and
\* EXTENSION, every transaction falls in the range of exactly one closed
\* statement, and the ending_balance of the last closed statement, which is
\* the beginning_balance of the open statement, equals the ledger's final
\* running balance.
C20_StatementsMatchLedger ==
    (Appended /\ StatementKindsOnly) =>
        /\ \A i \in DOMAIN card.transactions :
               Cardinality(ClosedHolding(i)) = 1
        /\ Closed # {}
        /\ LastClosed + 1 = Len(card.statements)
        /\ card.statements[LastClosed].ending_balance
               = Some(card.statements[Len(card.statements)].beginning_balance)
        /\ card.statements[LastClosed].ending_balance = Some(FinalBalance)

\* C20, the ranges: every transaction of the four kinds lies in exactly one
\* closed statement, and the statement after the last closed one is the open
\* one and begins with the balance the last closed one ends with.
C20_RangesAndChain ==
    (Appended /\ StatementKindsOnly) =>
        /\ \A i \in DOMAIN card.transactions :
               Cardinality(ClosedHolding(i)) = 1
        /\ Closed # {}
        /\ LastClosed + 1 = Len(card.statements)
        /\ card.statements[LastClosed].ending_balance
               = Some(card.statements[Len(card.statements)].beginning_balance)

\* C20, the balance with at most two transactions in the ledger
C20_UpToTwoTransactions ==
    (Appended /\ StatementKindsOnly /\ Len(card.transactions) <= 2) =>
        /\ Closed # {}
        /\ card.statements[LastClosed].ending_balance = Some(FinalBalance)

\* every ledger row has an amount above zero
PositiveAmountsOnly ==
    \A i \in DOMAIN card.transactions :
        /\ card.transactions[i].amount # Zero
        /\ ~is_negative(card.transactions[i].amount)

\* C20, the balance when every amount in the ledger is above zero
C20_WithPositiveAmounts ==
    (Appended /\ StatementKindsOnly /\ PositiveAmountsOnly) =>
        /\ Closed # {}
        /\ card.statements[LastClosed].ending_balance = Some(FinalBalance)

\* the aggregates and the ending balance of statement s are all null
NullAggregates(s) ==
    /\ card.statements[s].ending_balance = None
    /\ card.statements[s].purchases_amount = None
    /\ card.statements[s].refunds_amount = None
    /\ card.statements[s].payments_amount = None
    /\ card.statements[s].extensions_amount = None

\* the aggregates and the ending balance of statement s are all set
SetAggregates(s) ==
    /\ card.statements[s].ending_balance # None
    /\ card.statements[s].purchases_amount # None
    /\ card.statements[s].refunds_amount # None
    /\ card.statements[s].payments_amount # None
    /\ card.statements[s].extensions_amount # None

\* the latest effective_date in the ledger
LatestDate ==
    CHOOSE d \in {card.transactions[i].effective_date :
                     i \in DOMAIN card.transactions} :
        \A i \in DOMAIN card.transactions :
            card.transactions[i].effective_date <= d

\* C21: after any non-empty sequence of appends the last statement is an open
\* cycle with null aggregates and null ending_balance that starts after the
\* latest transaction's effective_date, and every statement before it is
\* closed, with aggregates set, and starts on or before that date.
C21_OpenStatementLast ==
    Appended =>
        /\ card.statements # <<>>
        /\ NullAggregates(Len(card.statements))
        /\ card.statements[Len(card.statements)].start_date
               > LatestDate
        /\ \A s \in 1..(Len(card.statements) - 1) :
               /\ SetAggregates(s)
               /\ card.statements[s].start_date
                      <= LatestDate

\* after an append, two closed statements that hold transactions and the open
\* one after them
C21_Witness ==
    /\ Appended
    /\ Len(card.statements) = 3
    /\ card.statements[1].transactions # <<>>
    /\ card.statements[2].transactions # <<>>
    /\ NullAggregates(3)

\* max(0, x) of a float
MaxWithZero(x) == IF x.neg THEN Zero ELSE x

\* C22: every statement but the first, the open one included, has
\* balance_due = max(0, its beginning_balance), whatever is paid inside its
\* own period, and the first statement's balance_due is 0.
C22_BalanceDue ==
    Appended =>
        \A s \in DOMAIN card.statements :
            card.statements[s].balance_due =
                IF s = 1 THEN Zero
                ELSE MaxWithZero(card.statements[s].beginning_balance)

\* after an append, a statement that begins above 0, holds a PAYMENT and is
\* due its whole beginning balance, and one that begins below 0 and is due 0
C22_Witness ==
    /\ Appended
    /\ \E s \in 2..Len(card.statements) :
           /\ card.statements[s].beginning_balance # Zero
           /\ ~card.statements[s].beginning_balance.neg
           /\ \E i \in DOMAIN card.statements[s].transactions :
                  /\ card.statements[s].transactions[i].type = "PAYMENT"
                  /\ card.statements[s].transactions[i].amount # Zero
           /\ card.statements[s].balance_due
                  = card.statements[s].beginning_balance
    /\ \E s \in 2..Len(card.statements) :
           /\ card.statements[s].beginning_balance.neg
           /\ card.statements[s].balance_due = Zero

\* the dates the balance due is asked for: before, at and after every cycle
\* start and transaction date of the ledgers
BalanceDates ==
    LedgerDates \cup
    {MkDate(2024, 11, 30), MkDate(2024, 12, 1), MkDate(2024, 12, 14),
     MkDate(2024, 12, 15), MkDate(2025, 1, 1), MkDate(2025, 1, 4),
     MkDate(2025, 1, 14), MkDate(2025, 1, 15), MkDate(2025, 1, 19),
     MkDate(2025, 2, 1), MkDate(2025, 2, 15), MkDate(2025, 3, 20)}

\* the statements that start on or before date
StartedBy(date) ==
    {s \in DOMAIN card.statements : card.statements[s].start_date <= date}

\* the one of them that starts latest
Anchor(date) ==
    CHOOSE s \in StartedBy(date) :
        \A t \in StartedBy(date) :
            card.statements[t].start_date <= card.statements[s].start_date

\* the PAYMENT and EXTENSION rows of the ledger from the anchor's start to date
CreditsSince(date) ==
    {i \in DOMAIN card.transactions :
         /\ card.transactions[i].type \in {"PAYMENT", "EXTENSION"}
         /\ card.transactions[i].effective_date
                >= card.statements[Anchor(date)].start_date
         /\ card.transactions[i].effective_date <= date}

RECURSIVE ReducedBy(_, _)
\* due reduced by the rows S in ledger order, never below 0
ReducedBy(S, due) ==
    IF S = {} THEN due
    ELSE LET i == CHOOSE j \in S : \A k \in S : j <= k
         IN  ReducedBy(S \ {i},
                       MaxWithZero(fsub(due, card.transactions[i].amount)))

C23_PurchasesLeaveIt ==
    [][(last'.op = "add_transaction" /\ last'.type \in {"PURCHASE", "REFUND"})
       => \A date \in BalanceDates :
              (/\ past_stmt(card'.statements, date) # 0
               /\ card'.statements[past_stmt(card'.statements, date)].start_date
                      <= last'.payment_date
               /\ last'.payment_date <= date)
              => calculate_period_balance_due(card', date)
                     = calculate_period_balance_due(card, date)]_vars

Cycled == last.op = "get_statement_cycles" /\ ~last.raised

\* the days of 2025 and 2026
Calendar ==
    {date \in {MkDate(y, m, d) : y \in 2025..2026, m \in 1..12, d \in 1..31} :
         DayOf(date) <= DaysInMonth(YearOf(date), MonthOf(date))}

\* a day that is no Saturday, no Sunday (2025-01-04 was a Saturday) and no
\* holiday
BusinessDay(date) ==
    /\ (DayNumber(date) - DayNumber(MkDate(2025, 1, 4))) % 7 \notin {0, 1}
    /\ date \notin time_utils_holidays

\* the number of business days after from, up to and including to
BusinessDaysIn(from, to) ==
    Cardinality({date \in Calendar :
                     from < date /\ date <= to /\ BusinessDay(date)})

\* date is n business days after from: n = 0 stays, n > 0 lands on the n-th
\* business day
SteppedBy(from, n, date) ==
    /\ date >= from
    /\ BusinessDaysIn(from, date) = n
    /\ n > 0 => BusinessDay(date)
    /\ n = 0 => date = from

\* the day before the same day of the month after start's
EndOfCycle(start) ==
    IF MonthOf(start) = 12
    THEN MkDate(YearOf(start) + 1, 1, DayOf(start) - 1)
    ELSE MkDate(YearOf(start), MonthOf(start) + 1, DayOf(start) - 1)

\* C24: cycle generation from a valid start date returns exactly count
\* cycles; each cycle ends one month minus one day after its start, the year
\* going up from December to January, each next cycle starts the day after
\* the end of the one before it, and each due date is the end stepped forward
\* by the grace period in business days.
C24_ContiguousCycles ==
    Cycled =>
        /\ Len(last.result) = last.count
        /\ last.count > 0 => last.result[1].start = last.payment_date
        /\ \A k \in DOMAIN last.result :
               /\ last.result[k].end = EndOfCycle(last.result[k].start)
               /\ k > 1 => DayNumber(last.result[k].start)
                               = DayNumber(last.result[k - 1].end) + 1
               /\ SteppedBy(last.result[k].end, last.days, last.result[k].due)

\* C24, the cycles the repository's tests expect from 2025-01-15 and from
\* 2025-12-15 with a grace period of 21 business days
C24_Examples ==
    (Cycled /\ last.days = 21 /\ last.count = 3) =>
        /\ last.payment_date = MkDate(2025, 1, 15) =>
               last.result =
                   <<[start |-> MkDate(2025, 1, 15), end |-> MkDate(2025, 2, 14),
                      due |-> MkDate(2025, 3, 17)],
                     [start |-> MkDate(2025, 2, 15), end |-> MkDate(2025, 3, 14),
                      due |-> MkDate(2025, 4, 14)],
                     [start |-> MkDate(2025, 3, 15), end |-> MkDate(2025, 4, 14),
                      due |-> MkDate(2025, 5, 14)]>>
        /\ last.payment_date = MkDate(2025, 12, 15) =>
               SubSeq(last.result, 1, 2) =
                   <<[start |-> MkDate(2025, 12, 15),
                      end |-> MkDate(2026, 1, 14), due |-> MkDate(2026, 2, 12)],
                     [start |-> MkDate(2026, 1, 15),
                      end |-> MkDate(2026, 2, 14), due |-> MkDate(2026, 3, 16)]>>

\* the same day of the month after start's
MonthLater(start) ==
    IF MonthOf(start) = 12 THEN MkDate(YearOf(start) + 1, 1, DayOf(start))
    ELSE MkDate(YearOf(start), MonthOf(start) + 1, DayOf(start))

\* C24, the statements of the ledger: they start on the cycle day, each ends
\* the day before the same day of the next month, each next one starts the
\* day after, and each is due one business day after its end.
C24_LedgerStatements ==
    Appended =>
        \A s \in DOMAIN card.statements :
            /\ DayOf(card.statements[s].start_date) = card.statement_cycle_start
            /\ DayNumber(card.statements[s].end_date) + 1
                   = DayNumber(MonthLater(card.statements[s].start_date))
            /\ s > 1 => DayNumber(card.statements[s].start_date)
                            = DayNumber(card.statements[s - 1].end_date) + 1
            /\ SteppedBy(card.statements[s].end_date, 1,
                         card.statements[s].due_date)

\* three cycles from a day in December with a grace period of 21 business
\* days: the year goes up, and every due date lies after its end
C24_Witness ==
    /\ Cycled
    /\ last.count = 3
    /\ last.days = 21
    /\ MonthOf(last.payment_date) = 12
    /\ YearOf(last.result[1].end) = YearOf(last.payment_date) + 1
    /\ MonthOf(last.result[3].end) = 3
    /\ \A k \in DOMAIN last.result : last.result[k].end < last.result[k].due

Stepped == last.op = "add_business_days"

\* C26: step_business_days(date, n) returns the date d >= date with exactly n
\* business days (no Saturday, no Sunday, no holiday) after date up to and
\* including d; for n > 0 the result is itself a business day and for n = 0
\* it is the date passed in.
C26_StepBusinessDays ==
    Stepped => SteppedBy(last.payment_date, last.days, last.result[1])

\* C26, one step: the next business day the statements use as due date is the
\* date stepped forward by one business day.
C26_NextBusinessDay ==
    (Stepped /\ last.days = 1) =>
        get_next_business_day(last.payment_date) = last.result[1]

\* one business day from the Thursday before Good Friday 2025 lands on the
\* Monday after it
C26_Witness ==
    /\ Stepped
    /\ last.payment_date = MkDate(2025, 4, 17)
    /\ last.days = 1
    /\ last.result = <<MkDate(2025, 4, 21)>>

\* ------------------------------------------------------------------ C27
CreatedOnCard == last.op = "create_statement_extension"

\* what a ledger row says, without its running balance
Content(t) ==
    [type |-> t.type, direction |-> t.direction, amount |-> t.amount,
     effective_date |-> t.effective_date]

Contents(rows) == [i \in DOMAIN rows |-> Content(rows[i])]

WithoutRow(rows, i) == SubSeq(rows, 1, i - 1) \o SubSeq(rows, i + 1, Len(rows))

\* the ledger is the one before the call with exactly one more row, and that
\* row is an EXTENSION credit of the amount and the date given
PostedOneExtensionRow(before, after, amount, effective_date) ==
    \E i \in DOMAIN after :
        /\ Content(after[i]) =
               [type |-> "EXTENSION", direction |-> "CREDIT",
                amount |-> amount, effective_date |-> effective_date]
        /\ Contents(WithoutRow(after, i)) = Contents(before)

\* the list of extensions is the one before the call with exactly one more,
\* of the amount and the date given
AddedOneExtension(before, after, amount, effective_date) ==
    /\ Len(after) = Len(before) + 1
    /\ SubSeq(after, 1, Len(before)) = before
    /\ after[Len(after)].original_amount = amount
    /\ after[Len(after)].start_date = effective_date
    /\ after[Len(after)].status = "ACTIVE"

FinalBalanceOf(rows) == IF rows = <<>> THEN Zero ELSE rows[Len(rows)].balance

CreatedCorrectly ==
    /\ AddedOneExtension(last.card.extensions, card.extensions, last.amount,
                         last.payment_date)
    /\ PostedOneExtensionRow(last.card.transactions, card.transactions,
                             float_of_cents(last.amount \div Cent),
                             last.payment_date)
    /\ FinalBalanceOf(card.transactions) =
           fsub(FinalBalanceOf(last.card.transactions),
                float_of_cents(last.amount \div Cent))
    /\ card.statements # <<>>
    /\ card.statements =
           generate_statements(card.transactions, card.statement_cycle_start)

\* C27: create_statement_extension(amount, effective_date, term_months, apr)
\* adds exactly one extension to the simulator and posts exactly one
\* EXTENSION (CREDIT) transaction of the same amount and effective date, so
\* that the ledger's final balance decreases by the amount and the statements
\* are those generated from the new ledger.
C27_CreateExtension == CreatedOnCard => CreatedCorrectly

\* C27 for the calls whose term_months is not 0
C27_WithValidTerm ==
    (CreatedOnCard /\ last.term_months # 0) =>
        (~last.raised /\ CreatedCorrectly)

\* what a term_months of 0 does: the transaction is posted, the statements
\* are generated, the constructor raises and no extension is added
C27_ZeroTerm ==
    (CreatedOnCard /\ last.term_months = 0) =>
        /\ last.raised
        /\ card.extensions = last.card.extensions
        /\ PostedOneExtensionRow(last.card.transactions, card.transactions,
                                 float_of_cents(last.amount \div Cent),
                                 last.payment_date)

\* a second extension was created on a card that holds one already
C27_Witness ==
    /\ CreatedOnCard
    /\ ~last.raised
    /\ Len(card.extensions) = 2
    /\ Len(card.transactions) = 2
    /\ card.extensions[2].extension_id = 2

\* C27 for the final balance alone, on a ledger of rows of every kind: an
\* EXTENSION row added by add_transaction lowers the final balance by its
\* amount
C27_LedgerFinalBalance ==
    (last.op = "add_transaction" /\ last.type = "EXTENSION" /\ ~last.raised) =>
        FinalBalanceOf(card.transactions) =
            fsub(FinalBalanceOf(last.card.transactions),
                 AmountFloat[last.amount \div Cent])

C27_LedgerFinalBalanceUpToTwo ==
    (/\ last.op = "add_transaction"
     /\ last.type = "EXTENSION"
     /\ ~last.raised
     /\ Len(card.transactions) <= 2) =>
        FinalBalanceOf(card.transactions) =
            fsub(FinalBalanceOf(last.card.transactions),
                 AmountFloat[last.amount \div Cent])

\* ------------------------------------------------------------------ C28
PaidOnCard == last.op = "make_extension_payment"

\* the ids of the extensions a simulator holds
KnownIds(sim) ==
    {sim.extensions[i].extension_id : i \in DOMAIN sim.extensions}

\* C28: make_extension_payment with an extension_id that matches no extension
\* of the simulator returns None, raises nothing and leaves every
\* extension's schedule, current_balance, status and payments, the ledger
\* and the statements as they were.
C28_UnknownExtension ==
    (PaidOnCard /\ last.extension \notin KnownIds(last.card)) =>
        /\ last.result = <<NoPayment>>
        /\ ~last.raised
        /\ card.extensions = last.card.extensions
        /\ card.transactions = last.card.transactions
        /\ card = last.card

\* C28, the other side: with the id of an extension the call returns that
\* extension's payment record of the amount, and only that extension changes
C28_KnownExtension ==
    (PaidOnCard /\ last.extension \in KnownIds(last.card) /\ ~last.raised) =>
        /\ last.result # <<NoPayment>>
        /\ last.result[1].payment_amount = last.amount
        /\ card.extensions[last.extension].payments =
               Append(last.card.extensions[last.extension].payments,
                      last.result[1])
        /\ \A i \in DOMAIN card.extensions :
               i # last.extension =>
                   card.extensions[i] = last.card.extensions[i]
        /\ card.transactions = last.card.transactions

\* an unknown id was given to a simulator that holds two extensions, one of
\* them with a payment made
C28_Witness ==
    /\ PaidOnCard
    /\ last.extension \notin KnownIds(last.card)
    /\ Len(card.extensions) = 2
    /\ card.extensions[1].payments # <<>>
    /\ last.result = <<NoPayment>>

\* ------------------------------------------------------------------ C29
\* what the first two phases of the last make_payment left: the schedule,
\* the leftover funds and the unpaid installments due after the payment date
AfterCurrentPhase ==
    current_phase(
        Before,
        past_due_phase(
            [schedule |-> Before.payment_schedule,
             remaining_payment |-> last.amount,
             principal_paid |-> 0,
             interest_paid |-> 0],
            past_due_rows(Before.payment_schedule, last.payment_date)),
        last.payment_date)

Leftover == AfterCurrentPhase.remaining_payment

FutureUnpaid ==
    {i \in DOMAIN AfterCurrentPhase.schedule :
        /\ AfterCurrentPhase.schedule[i].payment_date > last.payment_date
        /\ ~AfterCurrentPhase.schedule[i].paid}

InFuturePhase ==
    /\ last.op = "make_payment"
    /\ Leftover > 0
    /\ FutureUnpaid # {}

FuturePrincipal ==
    SumOver(FutureUnpaid,
            [i \in FutureUnpaid |->
                AfterCurrentPhase.schedule[i].remaining_principal], 0)

FutureInterest ==
    SumOver(FutureUnpaid,
            [i \in FutureUnpaid |->
                AfterCurrentPhase.schedule[i].remaining_interest], 0)

\* floor(R / (total principal / n))
Covered ==
    (Leftover * Cardinality(FutureUnpaid)) \div FuturePrincipal

\* n * n * (waived / n), waived being (total interest / n) * covered
WaivedTimesN == FutureInterest * Covered

\* the installment i of the schedule after the call is the one the first two
\* phases left, its principal reduced by min(R / n, principal) and its
\* interest by min(waived / n, interest), paid when both are 0 or less; the
\* equations are multiplied by n and by n * n, so that nothing is rounded
ReducedByShare(i) ==
    LET n == Cardinality(FutureUnpaid)
        was == AfterCurrentPhase.schedule[i]
        is == After.payment_schedule[i]
    IN  /\ n * is.remaining_principal =
               n * was.remaining_principal
                   - Min(Leftover, n * was.remaining_principal)
        /\ n * n * is.remaining_interest =
               n * n * was.remaining_interest
                   - Min(WaivedTimesN, n * n * was.remaining_interest)
        /\ is.paid = (is.remaining_principal <= 0
                      /\ is.remaining_interest <= 0)

\* the same with what is left rounded to the cent, as the code stores it
ReducedByShareToTheCent(i) ==
    LET n == Cardinality(FutureUnpaid)
        was == AfterCurrentPhase.schedule[i]
        is == After.payment_schedule[i]
    IN  /\ is.remaining_principal =
               Quantize(was.remaining_principal
                            - Min(Leftover \div n, was.remaining_principal))
        /\ is.remaining_interest =
               Quantize(was.remaining_interest
                            - Min(WaivedTimesN \div (n * n),
                                  was.remaining_interest))
        /\ is.paid = (is.remaining_principal <= 0
                      /\ is.remaining_interest <= 0)

\* C29: in the future pro-ration phase of make_payment, with leftover funds
\* R and n unpaid installments due strictly after the payment date,
\* covered = floor(R / average remaining principal), waived = average
\* remaining interest x covered, and every one of the n installments has its
\* remaining_principal reduced by min(R / n, remaining_principal) and its
\* remaining_interest by min(waived / n, remaining_interest), and is marked
\* paid when both reach 0; the other installments stay as the first two
\* phases left them.
C29_FutureProRation ==
    InFuturePhase =>
        /\ ~last.raised
        /\ FuturePrincipal # 0
        /\ \A i \in FutureUnpaid : ReducedByShare(i)
        /\ \A i \in DOMAIN After.payment_schedule \ FutureUnpaid :
               After.payment_schedule[i] = AfterCurrentPhase.schedule[i]

\* C29 with what is left of each installment rounded to the cent, for the
\* calls whose future installments have principal left
C29_ToTheCent ==
    (InFuturePhase /\ FuturePrincipal # 0) =>
        /\ ~last.raised
        /\ \A i \in FutureUnpaid : ReducedByShareToTheCent(i)
        /\ \A i \in DOMAIN After.payment_schedule \ FutureUnpaid :
               After.payment_schedule[i] = AfterCurrentPhase.schedule[i]

\* C29 for the calls whose shares and installments are whole cents
C29_WholeCentShares ==
    (/\ InFuturePhase
     /\ FuturePrincipal # 0
     /\ Leftover % (Cardinality(FutureUnpaid) * Cent) = 0
     /\ WaivedTimesN
            % (Cardinality(FutureUnpaid) * Cardinality(FutureUnpaid) * Cent)
            = 0
     /\ \A i \in FutureUnpaid :
            /\ AfterCurrentPhase.schedule[i].remaining_principal % Cent = 0
            /\ AfterCurrentPhase.schedule[i].remaining_interest % Cent = 0) =>
        /\ ~last.raised
        /\ \A i \in FutureUnpaid : ReducedByShare(i)

\* the future installments have no principal left: the average is 0 and the
\* call raises
C29_NoPrincipalRaises ==
    InFuturePhase => (last.raised <=> FuturePrincipal = 0)

\* 4.00 left for two future installments that are not cleared by it, with
\* interest waived
C29_Witness ==
    /\ InFuturePhase
    /\ ~last.raised
    /\ Cardinality(FutureUnpaid) = 2
    /\ Covered >= 1
    /\ FutureInterest > 0
    /\ \A i \in FutureUnpaid :
           /\ ReducedByShareToTheCent(i)
           /\ After.payment_schedule[i].remaining_principal > 0
           /\ After.payment_schedule[i].remaining_principal
                  < AfterCurrentPhase.schedule[i].remaining_principal
           /\ After.payment_schedule[i].remaining_interest
                  < AfterCurrentPhase.schedule[i].remaining_interest

\* C29 on engine.ExtensionProduct.make_payment, which rounds nothing: what
\* its first two phases left of the extension the last make_extension_payment
\* paid to
EngineAfterCurrentPhase ==
    engine_current_phase(
        engine_past_due_phase(
            [schedule |-> last.card.extensions[last.extension].payment_schedule,
             remaining_payment |-> last.amount,
             principal_paid |-> 0,
             interest_paid |-> 0],
            past_due_rows(
                last.card.extensions[last.extension].payment_schedule,
                last.payment_date)),
        last.payment_date)

EngineFutureUnpaid ==
    {i \in DOMAIN EngineAfterCurrentPhase.schedule :
        /\ EngineAfterCurrentPhase.schedule[i].payment_date > last.payment_date
        /\ ~EngineAfterCurrentPhase.schedule[i].paid}

InEngineFuturePhase ==
    /\ PaidOnCard
    /\ last.extension \in KnownIds(last.card)
    /\ EngineAfterCurrentPhase.remaining_payment > 0
    /\ EngineFutureUnpaid # {}

EngineReducedByShare(i) ==
    LET n == Cardinality(EngineFutureUnpaid)
        R == EngineAfterCurrentPhase.remaining_payment
        principal ==
            SumOver(EngineFutureUnpaid,
                    [j \in EngineFutureUnpaid |->
                        EngineAfterCurrentPhase.schedule[j]
                            .remaining_principal], 0)
        interest ==
            SumOver(EngineFutureUnpaid,
                    [j \in EngineFutureUnpaid |->
                        EngineAfterCurrentPhase.schedule[j]
                            .remaining_interest], 0)
        covered == (R * n) \div principal
        was == EngineAfterCurrentPhase.schedule[i]
        is == card.extensions[last.extension].payment_schedule[i]
    IN  /\ principal # 0
        /\ n * is.remaining_principal =
               n * was.remaining_principal
                   - Min(R, n * was.remaining_principal)
        /\ n * n * is.remaining_interest =
               n * n * was.remaining_interest
                   - Min(interest * covered, n * n * was.remaining_interest)
        /\ is.paid = (is.remaining_principal <= 0
                      /\ is.remaining_interest <= 0)

C29_EngineProRation ==
    InEngineFuturePhase =>
        /\ ~last.raised
        /\ \A i \in EngineFutureUnpaid : EngineReducedByShare(i)
        /\ \A i \in DOMAIN card.extensions[last.extension].payment_schedule
                        \ EngineFutureUnpaid :
               card.extensions[last.extension].payment_schedule[i]
                   = EngineAfterCurrentPhase.schedule[i]

C29_EngineWitness ==
    /\ InEngineFuturePhase
    /\ Cardinality(EngineFutureUnpaid) = 2
    /\ \A i \in EngineFutureUnpaid :
           /\ ~card.extensions[last.extension].payment_schedule[i].paid
           /\ card.extensions[last.extension].payment_schedule[i]
                  .remaining_interest
                  < EngineAfterCurrentPhase.schedule[i].remaining_interest

\* ------------------------------------------------------------------ C30
InSync(row) ==
    row.remaining_amount = row.remaining_principal + row.remaining_interest

\* C30: after creation and after any sequence of make_payment and
\* allocate_payment calls, every installment of every extension has
\* remaining_amount = remaining_principal + remaining_interest.
C30_RemainingAmountInSync ==
    \A e \in DOMAIN extensions :
        \A i \in DOMAIN extensions[e].payment_schedule :
            InSync(extensions[e].payment_schedule[i])

\* C30 right after creation
C30_AtCreation ==
    last.op = "create_extension" =>
        \A i \in DOMAIN extensions[last.extension].payment_schedule :
            InSync(extensions[last.extension].payment_schedule[i])

\* C30 with the sum rounded to the cent, for the installments a call wrote:
\* those whose principal or interest it changed
C30_ToTheCent ==
    (PaidOne /\ ~last.raised) =>
        \A i \in DOMAIN After.payment_schedule :
            After.payment_schedule[i] # Before.payment_schedule[i] =>
                After.payment_schedule[i].remaining_amount =
                    Quantize(After.payment_schedule[i].remaining_principal
                             + After.payment_schedule[i].remaining_interest)

\* C30 for the extensions whose installments are created in whole cents
C30_WholeCents ==
    \A e \in DOMAIN extensions :
        (\A i \in DOMAIN extensions[e].payment_schedule :
             extensions[e].payment_schedule[i].interest_amount % Cent = 0) =>
            \A i \in DOMAIN extensions[e].payment_schedule :
                InSync(extensions[e].payment_schedule[i])

\* an installment was paid in part and is in sync
C30_Witness ==
    /\ PaidOne
    /\ ~last.raised
    /\ \E i \in DOMAIN After.payment_schedule :
           /\ After.payment_schedule[i].remaining_principal
                  < Before.payment_schedule[i].remaining_principal
           /\ After.payment_schedule[i].remaining_principal > 0
           /\ After.payment_schedule[i].remaining_interest > 0
           /\ InSync(After.payment_schedule[i])

\* ------------------------------------------------------------------ C31
\* the last call was a payment of a positive amount
PaymentMade ==
    /\ last.op \in {"make_payment", "pay_past_due_amount", "allocate_payment"}
    /\ last.amount > 0

RowNotIncreased(was, is) ==
    /\ is.remaining_principal <= was.remaining_principal
    /\ is.remaining_interest <= was.remaining_interest
    /\ is.remaining_amount <= was.remaining_amount

RowFixedKept(was, is) ==
    /\ is.principal_amount = was.principal_amount
    /\ is.interest_amount = was.interest_amount
    /\ is.payment_date = was.payment_date
    /\ is.payment_number = was.payment_number

BalanceNotIncreased(was, is) ==
    /\ is.current_balance <= was.current_balance
    /\ is.current_balance >= 0

\* C31: a payment of a positive amount increases no installment's
\* remaining_principal, remaining_interest or remaining_amount, changes no
\* installment's principal_amount and interest_amount, does not increase the
\* extension's current_balance and leaves it at 0 or above; so across any
\* sequence of payments none of them ever increases.
C31_NeverIncreases ==
    PaymentMade =>
        /\ DOMAIN extensions = DOMAIN last.before
        /\ \A e \in DOMAIN extensions :
               /\ DOMAIN extensions[e].payment_schedule
                      = DOMAIN last.before[e].payment_schedule
               /\ BalanceNotIncreased(last.before[e], extensions[e])
               /\ \A i \in DOMAIN extensions[e].payment_schedule :
                      /\ RowNotIncreased(last.before[e].payment_schedule[i],
                                         extensions[e].payment_schedule[i])
                      /\ RowFixedKept(last.before[e].payment_schedule[i],
                                      extensions[e].payment_schedule[i])

\* C31 without the remaining fields: the fixed amounts and the balance
C31_FixedAndBalance ==
    PaymentMade =>
        \A e \in DOMAIN extensions :
            /\ BalanceNotIncreased(last.before[e], extensions[e])
            /\ \A i \in DOMAIN extensions[e].payment_schedule :
                   RowFixedKept(last.before[e].payment_schedule[i],
                                extensions[e].payment_schedule[i])

\* C31 for the extensions no installment of which was below 0 or held a
\* fraction of a cent before the call
WholeCentRows(ext) ==
    \A i \in DOMAIN ext.payment_schedule :
        /\ ext.payment_schedule[i].remaining_principal >= 0
        /\ ext.payment_schedule[i].remaining_interest >= 0
        /\ ext.payment_schedule[i].remaining_principal % Cent = 0
        /\ ext.payment_schedule[i].remaining_interest % Cent = 0

C31_WholeCentRows ==
    PaymentMade =>
        \A e \in DOMAIN extensions :
            WholeCentRows(last.before[e]) =>
                \A i \in DOMAIN extensions[e].payment_schedule :
                    RowNotIncreased(last.before[e].payment_schedule[i],
                                    extensions[e].payment_schedule[i])

\* C31 for the extensions no installment of which was below 0 before the
\* call, fractions of a cent allowed
NonNegativeRows(ext) ==
    \A i \in DOMAIN ext.payment_schedule :
        /\ ext.payment_schedule[i].remaining_principal >= 0
        /\ ext.payment_schedule[i].remaining_interest >= 0

C31_NonNegativeRows ==
    PaymentMade =>
        \A e \in DOMAIN extensions :
            NonNegativeRows(last.before[e]) =>
                \A i \in DOMAIN extensions[e].payment_schedule :
                    RowNotIncreased(last.before[e].payment_schedule[i],
                                    extensions[e].payment_schedule[i])

\* a payment lowered the principal, the interest and the balance of an
\* extension and left a later installment as it was
C31_Witness ==
    /\ PaidOne
    /\ ~last.raised
    /\ After.current_balance < Before.current_balance
    /\ After.current_balance > 0
    /\ \E i \in DOMAIN After.payment_schedule :
           /\ After.payment_schedule[i].remaining_principal
                  < Before.payment_schedule[i].remaining_principal
           /\ After.payment_schedule[i].remaining_interest
                  < Before.payment_schedule[i].remaining_interest
    /\ \E i \in DOMAIN After.payment_schedule :
           After.payment_schedule[i] = Before.payment_schedule[i]

\* ------------------------------------------------------------------ C32
\* C32: a payment toward an extension of the simulator leaves the ledger
\* untouched: the transaction rows with their running balances and the
\* statements are those of before the call, and so is the balance due as of
\* every date.
C32_LedgerUntouched ==
    PaidOnCard =>
        /\ card.transactions = last.card.transactions
        /\ card.statements = last.card.statements
        /\ card.statement_cycle_start = last.card.statement_cycle_start
        /\ \A date \in BalanceDates :
               calculate_period_balance_due(card, date)
                   = calculate_period_balance_due(last.card, date)

\* C32 for the registry of extension.py, which holds no ledger: no payment
\* call of it changes the simulator
C32_RegistryPayments ==
    PaymentMade => card = last.card

\* a payment changed an extension of a simulator whose ledger holds a
\* purchase and two extension credits and has a balance due on some date
C32_Witness ==
    /\ PaidOnCard
    /\ last.extension \in KnownIds(last.card)
    /\ ~last.raised
    /\ card.extensions # last.card.extensions
    /\ Len(card.transactions) = 3
    /\ card.statements # <<>>
    /\ \E date \in BalanceDates :
           ~is_negative(calculate_period_balance_due(card, date))
           /\ calculate_period_balance_due(card, date) # Zero

\* ------------------------------------------------------------------ C33
PrincipalOutstanding(ext) ==
    SumOver(DOMAIN ext.payment_schedule,
            [i \in DOMAIN ext.payment_schedule |->
                ext.payment_schedule[i].remaining_principal], 0)

\* C33: after creation and after any sequence of payments, an extension's
\* current_balance equals the sum of remaining_principal over all its
\* installments, to the cent: the two are the same rounded to the cent.
C33_BalanceIsPrincipalOutstanding ==
    \A e \in DOMAIN extensions :
        Quantize(extensions[e].current_balance)
            = Quantize(PrincipalOutstanding(extensions[e]))

\* C33 read as exact equality
C33_Exactly ==
    \A e \in DOMAIN extensions :
        extensions[e].current_balance = PrincipalOutstanding(extensions[e])

\* C33 read as less than a cent apart
C33_WithinACent ==
    \A e \in DOMAIN extensions :
        /\ extensions[e].current_balance - PrincipalOutstanding(extensions[e])
               < Cent
        /\ PrincipalOutstanding(extensions[e]) - extensions[e].current_balance
               < Cent

\* C33 right after creation
C33_AtCreation ==
    last.op = "create_extension" =>
        extensions[last.extension].current_balance
            = PrincipalOutstanding(extensions[last.extension])

\* C33 kept by every payment that does not raise
RoundedAlike(ext) ==
    Quantize(ext.current_balance) = Quantize(PrincipalOutstanding(ext))

C33_KeptUnlessRaised ==
    (PaidOne /\ ~last.raised /\ RoundedAlike(Before)) => RoundedAlike(After)

\* C33 kept by every payment of a whole number of cents that does not raise
C33_KeptByWholeCents ==
    (PaidOne /\ ~last.raised /\ RoundedAlike(Before)
     /\ last.amount % Cent = 0) => RoundedAlike(After)

\* a payment that raises leaves the installments of its first two phases
\* written and the balance as it was
C33_RaisedKeepsBalance ==
    (PaidOne /\ last.raised) =>
        /\ After.current_balance = Before.current_balance
        /\ After.payments = Before.payments
        /\ PrincipalOutstanding(After) <= PrincipalOutstanding(Before)

\* a payment was made in part and the balance is the principal outstanding
C33_Witness ==
    /\ PaidOne
    /\ ~last.raised
    /\ After.current_balance < Before.current_balance
    /\ After.current_balance > 0
    /\ After.current_balance = PrincipalOutstanding(After)

\* ------------------------------------------------------------------ C34
\* the last call was a make_payment that returned its breakdown
Returned == last.op = "make_payment" /\ ~last.raised

Breakdown == last.payments[1]

\* what the installments of the extension lost in the call
TakenOff(was, is) ==
    SumOver(DOMAIN was.payment_schedule,
            [i \in DOMAIN was.payment_schedule |->
                (was.payment_schedule[i].remaining_principal
                    - is.payment_schedule[i].remaining_principal)
                + (was.payment_schedule[i].remaining_interest
                    - is.payment_schedule[i].remaining_interest)], 0)

\* C34: for every make_payment call the returned principal_paid +
\* interest_paid does not exceed the payment amount: interest is reported as
\* paid only when it was paid from the payment's funds.
C34_BreakdownWithinAmount ==
    Returned =>
        Breakdown.principal_paid + Breakdown.interest_paid <= last.amount

\* C34 for the principal alone
C34_PrincipalWithinAmount ==
    Returned =>
        /\ Breakdown.principal_paid <= last.amount
        /\ Breakdown.principal_paid >= 0

\* C34 for the calls that do not reach the pro-ration phase: the breakdown is
\* within the amount; and when the installments were whole cents and not
\* below 0, it is what was taken off the installments
C34_WithoutProRation ==
    (Returned /\ ~InFuturePhase) =>
        /\ Breakdown.principal_paid + Breakdown.interest_paid <= last.amount
        /\ (WholeCentRows(Before) /\ last.amount % Cent = 0) =>
               Breakdown.principal_paid + Breakdown.interest_paid
                   = TakenOff(Before, After)

\* in the pro-ration phase the interest reported as paid is what the first
\* two phases paid and what the third waived
C34_WaivedIsReported ==
    (Returned /\ InFuturePhase /\ Covered >= 1 /\ FutureInterest > 0) =>
        Breakdown.interest_paid > AfterCurrentPhase.interest_paid

\* a payment that ends in the first two phases and pays principal and
\* interest
C34_Witness ==
    /\ Returned
    /\ ~InFuturePhase
    /\ Breakdown.principal_paid > 0
    /\ Breakdown.interest_paid > 0
    /\ Breakdown.principal_paid + Breakdown.interest_paid = last.amount

\* C34 on the simulator's ExtensionProduct
C34_EngineBreakdown ==
    (PaidOnCard /\ last.extension \in KnownIds(last.card) /\ ~last.raised) =>
        last.result[1].principal_paid + last.result[1].interest_paid
            <= last.amount

\* ------------------------------------------------------------------ C35
\* C35: an installment that is marked paid stays paid and an extension whose
\* status is PAID stays PAID through every payment call; a make_payment on a
\* PAID extension raises nothing, changes no installment, leaves
\* current_balance at its value and appends one record to the payments, of
\* the amount, with nothing paid.
C35_PaidStaysPaid ==
    /\ PaymentMade =>
           \A e \in DOMAIN extensions :
               /\ last.before[e].status = "PAID" =>
                      extensions[e].status = "PAID"
               /\ \A i \in DOMAIN extensions[e].payment_schedule :
                      last.before[e].payment_schedule[i].paid =>
                          extensions[e].payment_schedule[i].paid
    /\ (last.op = "make_payment" /\ Before.status = "PAID") =>
           /\ ~last.raised
           /\ After.payment_schedule = Before.payment_schedule
           /\ After.current_balance = Before.current_balance
           /\ After.status = "PAID"
           /\ After.payments =
                  Append(Before.payments,
                         [payment_date |-> last.payment_date,
                          payment_amount |-> last.amount,
                          principal_paid |-> 0,
                          interest_paid |-> 0,
                          remaining_balance |-> Before.current_balance])
           /\ After = [Before EXCEPT !.payments = After.payments]

\* a payment made to an extension that was PAID, before the due date of its
\* last installment
C35_Witness ==
    /\ last.op = "make_payment"
    /\ Before.status = "PAID"
    /\ last.amount > 0
    /\ Len(After.payments) = 2
    /\ Len(Before.payment_schedule) >= 2
    /\ Before.payment_schedule[Len(Before.payment_schedule)].payment_date
           > last.payment_date

\* ------------------------------------------------------------------ C36
\* C36: make_payment with a positive amount and any payment date, on an
\* extension in any reachable state, completes and returns a payment
\* breakdown of the amount; the pro-ration phase never divides by a zero
\* average future principal.
C36_AlwaysCompletes ==
    (last.op = "make_payment" /\ last.amount > 0) =>
        /\ ~last.raised
        /\ Len(last.payments) = 1
        /\ last.payments[1].payment_amount = last.amount

\* the calls that raise are those that reach the pro-ration phase with
\* unpaid future installments that have no principal left
C36_RaisesOnZeroAverage ==
    last.op = "make_payment" =>
        (last.raised <=> (InFuturePhase /\ FuturePrincipal = 0))

\* C36 for the extensions whose unpaid installments all have principal left
EveryUnpaidHasPrincipal(ext) ==
    \A i \in DOMAIN ext.payment_schedule :
        ext.payment_schedule[i].paid
            \/ ext.payment_schedule[i].remaining_principal > 0

C36_WithPrincipalLeft ==
    (last.op = "make_payment" /\ last.amount > 0
     /\ EveryUnpaidHasPrincipal(Before)) =>
        /\ ~last.raised
        /\ Len(last.payments) = 1

\* a payment dated before an earlier payment completes
C36_Witness ==
    /\ last.op = "make_payment"
    /\ ~last.raised
    /\ EveryUnpaidHasPrincipal(Before)
    /\ Before.payments # <<>>
    /\ Before.payments[1].payment_date > last.payment_date
    /\ InFuturePhase

\* C36 on the simulator's ExtensionProduct
C36_EngineCompletes ==
    (PaidOnCard /\ last.extension \in KnownIds(last.card)) => ~last.raised

\* ------------------------------------------------------------------ C37
\* C37: for every extension created with a positive amount, a non-negative
\* apr and a term of 1 to 12 months, the scheduled principal_amount and
\* interest_amount of every installment, the last one that absorbs the
\* remainders included, are greater than or equal to 0.
C37_ScheduleNonNegative ==
    \A e \in DOMAIN extensions :
        \A i \in DOMAIN extensions[e].payment_schedule :
            /\ extensions[e].payment_schedule[i].principal_amount >= 0
            /\ extensions[e].payment_schedule[i].interest_amount >= 0

\* the scheduled principal is not negative for the terms explored
C37_PrincipalNonNegative ==
    \A e \in DOMAIN extensions :
        \A i \in DOMAIN extensions[e].payment_schedule :
            extensions[e].payment_schedule[i].principal_amount >= 0

\* only the last installment, which takes the remainder, is scheduled
\* with negative interest
C37_OnlyTheLast ==
    \A e \in DOMAIN extensions :
        \A i \in DOMAIN extensions[e].payment_schedule :
            i < Len(extensions[e].payment_schedule) =>
                extensions[e].payment_schedule[i].interest_amount >= 0

\* an extension of several installments with interest has been created
C37_Witness ==
    \E e \in DOMAIN extensions :
        /\ Len(extensions[e].payment_schedule) = MaxTerm
        /\ extensions[e].apr > 0
        /\ \A i \in DOMAIN extensions[e].payment_schedule :
               extensions[e].payment_schedule[i].interest_amount >= 0

\* ------------------------------------------------------------------ C38
\* the rows of extension e due after its next installment at payment_date,
\* the earliest row due on or after that date
AfterNextInstallment(exts, e, payment_date) ==
    LET next_due == get_next_installment(exts[e], payment_date)
    IN  IF next_due = NoInstallment THEN {}
        ELSE {i \in DOMAIN exts[e].payment_schedule :
                  exts[e].payment_schedule[i].payment_date
                      > next_due.payment_date}

\* row i of extension e has the balances and the flag it had before the call
RowLeftAlone(e, i) ==
    LET was == last.before[e].payment_schedule[i]
        is == extensions[e].payment_schedule[i]
    IN  /\ is.remaining_principal = was.remaining_principal
        /\ is.remaining_interest = was.remaining_interest
        /\ is.paid = was.paid

\* C38: allocate_payment never reaches the pro-ration phase and never pays
\* ahead: every installment of every extension due after that extension's
\* next installment (the earliest due on or after the payment date) has the
\* same remaining_principal, remaining_interest and paid flag after the
\* call as before, and every payment record the call produces has a
\* strictly positive amount.
C38_NeverPaysAhead ==
    last.op = "allocate_payment" =>
        /\ \A e \in DOMAIN last.before :
               \A i \in AfterNextInstallment(last.before, e, last.payment_date) :
                   RowLeftAlone(e, i)
        /\ \A k \in DOMAIN last.payments : last.payments[k].payment_amount > 0

\* the first half of C38: the later installments are left alone
C38_LaterRowsLeftAlone ==
    last.op = "allocate_payment" =>
        \A e \in DOMAIN last.before :
            \A i \in AfterNextInstallment(last.before, e, last.payment_date) :
                RowLeftAlone(e, i)

\* the second half of C38: no payment record of 0 or less
C38_PositiveRecords ==
    last.op = "allocate_payment" =>
        \A k \in DOMAIN last.payments : last.payments[k].payment_amount > 0

\* the records of 0 are those made for an entry with nothing left on it
C38_ZeroForClearedEntry ==
    last.op = "allocate_payment" =>
        \A k \in DOMAIN last.payments :
            last.payments[k].payment_amount <= 0 =>
                /\ last.payments[k].payment_amount = 0
                /\ last.paid_to[k].remaining_amount = 0

\* an allocation of more than is due that paid a past-due installment and
\* the next one and left a later unpaid installment alone
C38_Witness ==
    /\ Allocated
    /\ Len(last.payments) >= 2
    /\ last.remaining_amount > 0
    /\ \A k \in DOMAIN last.payments : last.payments[k].payment_amount > 0
    /\ \E e \in DOMAIN last.before :
           \E i \in AfterNextInstallment(last.before, e, last.payment_date) :
               /\ ~last.before[e].payment_schedule[i].paid
               /\ RowLeftAlone(e, i)

\* ------------------------------------------------------------------ C39
\* the same extension is created in the registry (extension.py) and on the
\* card (engine.py)
CreateBoth ==
    /\ extensions = <<>>
    /\ card.extensions = <<>>
    /\ \E amount \in CardAmounts, start_date \in StartDates,
          term_months \in Terms, apr \in RegistryAprs :
           /\ extensions' = create_extension(extensions, amount * Cent,
                                             start_date, term_months, apr)
           /\ card' = create_statement_extension(card, amount, start_date,
                                                 term_months, apr)
           /\ last' = [Call("create_extension", 1, start_date, amount * Cent,
                            <<>>, <<>>, 0, FALSE)
                           EXCEPT !.term_months = term_months]
    /\ UNCHANGED calls

\* one payment made to the registry's product and to the card's
PaidBoth(amount, payment_date) ==
    LET made == make_payment(extensions[1], amount * Cent, payment_date)
        on_card == make_extension_payment(
                       card, card.extensions[1].extension_id,
                       amount * Cent, payment_date)
    IN  /\ extensions' = [extensions EXCEPT ![1] = made.ext]
        /\ card' = on_card.sim
        /\ last' = [Call("make_payment", 1, payment_date, amount * Cent,
                         IF made.raised THEN <<>> ELSE <<made.payment>>,
                         <<>>, 0, made.raised \/ on_card.raised)
                        EXCEPT !.result = <<on_card.payment>>]
        /\ calls' = calls + 1

\* the same payment is made to both
PayBoth ==
    /\ calls < MaxCalls
    /\ Len(extensions) = 1
    /\ Len(card.extensions) = 1
    /\ \E amount \in CardPayAmounts, payment_date \in PayDates :
           PaidBoth(amount, payment_date)

NextBoth ==
    \/ CreateBoth
    \/ PayBoth

SpecBoth == Init /\ [][NextBoth]_vars

\* the payment numbers of the installments marked paid
PaidSet(ext) ==
    {ext.payment_schedule[i].payment_number :
         i \in {j \in DOMAIN ext.payment_schedule : ext.payment_schedule[j].paid}}

BothCreated == Len(extensions) = 1 /\ Len(card.extensions) = 1

\* C39: for the same amount, apr, start date and term, and the same
\* sequence of payments, the ExtensionProduct of the card simulator
\* (engine.py) and the ExtensionProduct of the registry (extension.py) have
\* the same set of paid installments and the same status after every
\* payment.
C39_ImplementationsAgree ==
    (BothCreated /\ last.op = "make_payment") =>
        /\ PaidSet(card.extensions[1]) = PaidSet(extensions[1])
        /\ card.extensions[1].status = extensions[1].status

\* they agree when created
C39_AgreeAtCreation ==
    (BothCreated /\ last.op = "create_extension") =>
        /\ PaidSet(card.extensions[1]) = PaidSet(extensions[1])
        /\ card.extensions[1].status = extensions[1].status
        /\ Len(card.extensions[1].payment_schedule)
               = Len(extensions[1].payment_schedule)
        /\ \A i \in DOMAIN extensions[1].payment_schedule :
               card.extensions[1].payment_schedule[i].payment_date
                   = extensions[1].payment_schedule[i].payment_date

\* the status alone
C39_SameStatus ==
    (BothCreated /\ last.op = "make_payment") =>
        card.extensions[1].status = extensions[1].status

\* what the registry's product marks paid, the simulator's marks paid
C39_RegistryPaidWithinCard ==
    (BothCreated /\ last.op = "make_payment") =>
        PaidSet(extensions[1]) \subseteq PaidSet(card.extensions[1])

C39_CardPaidWithinRegistry ==
    (BothCreated /\ last.op = "make_payment") =>
        PaidSet(card.extensions[1]) \subseteq PaidSet(extensions[1])

\* both products have paid installments after two payments, and agree
C39_Witness ==
    /\ BothCreated
    /\ last.op = "make_payment"
    /\ calls = 2
    /\ PaidSet(extensions[1]) # {}
    /\ PaidSet(card.extensions[1]) = PaidSet(extensions[1])

\* ------------------------------------------------------------------ C40
\* amounts of 0 and below, in cents, offered as a payment
NonPositiveAmounts == {-100, 0}

\* a payment of 0 or less is made to the registry's product and to the card's
PayNonPositive ==
    /\ calls < MaxCalls
    /\ Len(extensions) = 1
    /\ Len(card.extensions) = 1
    /\ \E amount \in NonPositiveAmounts, payment_date \in PayDates :
           PaidBoth(amount, payment_date)

NextNonPositive ==
    \/ CreateBoth
    \/ PayBoth
    \/ PayNonPositive

SpecNonPositive == Init /\ [][NextNonPositive]_vars

NonPositivePaid == BothCreated /\ last.op = "make_payment" /\ last.amount <= 0

\* the registry's product is as it was, or no higher on any row
RegistryUnaffected ==
    /\ \A i \in DOMAIN Before.payment_schedule :
           /\ RowNotIncreased(Before.payment_schedule[i],
                              After.payment_schedule[i])
           /\ After.payment_schedule[i].paid = Before.payment_schedule[i].paid
    /\ After.current_balance = Before.current_balance
    /\ After.status = Before.status

\* the card's product is as it was, or no higher on any row
CardUnaffected ==
    LET was == last.card.extensions[1]
        is == card.extensions[1]
    IN  /\ \A i \in DOMAIN was.payment_schedule :
               /\ is.payment_schedule[i].remaining_principal
                      <= was.payment_schedule[i].remaining_principal
               /\ is.payment_schedule[i].remaining_interest
                      <= was.payment_schedule[i].remaining_interest
               /\ is.payment_schedule[i].paid = was.payment_schedule[i].paid
        /\ is.current_balance = was.current_balance
        /\ is.status = was.status

\* C40: a payment toward an extension with a zero or negative amount is
\* rejected as InvalidAmount or has no effect: it never increases any
\* installment's remaining_principal, remaining_interest or
\* remaining_amount, never changes a paid flag and never changes
\* current_balance or status.
C40_NonPositiveRejected ==
    NonPositivePaid =>
        \/ last.raised
        \/ RegistryUnaffected /\ CardUnaffected

\* C40 on the registry's product alone
C40_RegistryUnaffected ==
    NonPositivePaid => (last.raised \/ RegistryUnaffected)

\* C40 on the card's product alone
C40_CardUnaffected ==
    NonPositivePaid => (last.raised \/ CardUnaffected)

\* no payment of 0 or less is rejected
C40_NeverRejected ==
    NonPositivePaid =>
        /\ ~last.raised
        /\ Len(last.payments) = 1
        /\ last.payments[1].payment_amount = last.amount

\* a payment of 0 changes neither product
C40_ZeroHasNoEffect ==
    (NonPositivePaid /\ last.amount = 0) =>
        /\ After.payment_schedule = Before.payment_schedule
        /\ After.current_balance = Before.current_balance
        /\ After.status = Before.status
        /\ card.extensions[1].payment_schedule
               = last.card.extensions[1].payment_schedule
        /\ card.extensions[1].status = last.card.extensions[1].status

\* a payment below 0 with no unpaid installment past due changes neither
\* product's schedule
C40_NegativeWithNothingPastDue ==
    (NonPositivePaid
     /\ past_due_rows(Before.payment_schedule, last.payment_date) = <<>>) =>
        /\ After.payment_schedule = Before.payment_schedule
        /\ card.extensions[1].payment_schedule
               = last.card.extensions[1].payment_schedule

\* a payment of 0 made to an extension with an installment past due, after
\* a payment that paid an installment
C40_Witness ==
    /\ NonPositivePaid
    /\ last.amount = 0
    /\ past_due_rows(Before.payment_schedule, last.payment_date) # <<>>
    /\ \E i \in DOMAIN Before.payment_schedule :
           Before.payment_schedule[i].paid
    /\ RegistryUnaffected
    /\ CardUnaffected
====
